---------------------------- MODULE Spec2Model ----------------------------
(***************************************************************************)
(* A model of the polars logical-plan IR utilities:                        *)
(*   - crates/polars-plan/src/plans/ir/inputs.rs                           *)
(*       IR::copy_exprs, IR::copy_inputs, IR::with_exprs_and_input         *)
(*   - crates/polars-plan/src/plans/conversion/dsl_to_ir/expr_to_ir.rs     *)
(*       to_expr_ir, to_expr_irs, to_aexpr_impl, ...                       *)
(*   - crates/polars-plan/src/plans/options.rs                             *)
(*       FunctionFlags, FunctionOptions                                    *)
(*   - crates/polars-core/src/frame/row/transpose.rs                       *)
(*       DataFrame::transpose_impl, numeric_transpose                      *)
(*   - crates/polars-ops/src/series/ops/cut.rs                             *)
(*       cut, qcut, map_cats                                               *)
(* Each part has its own specification (SpecIR, SpecLower, SpecOptions,    *)
(* SpecTranspose, SpecCut); the variables of the other parts are left      *)
(* unchanged by its actions.                                               *)
(***************************************************************************)
EXTENDS Integers, Sequences, FiniteSets, TLC

VARIABLES
    \* ---- plan-node extraction / reconstruction (inputs.rs)
    ir,        \* the plan node `self`
    cexprs,    \* the caller's expression container (Vec<ExprIR>)
    cinputs,   \* the caller's input container (Vec<Node>)
    e0,        \* length of cexprs when copy_exprs was called
    i0,        \* length of cinputs when copy_inputs was called
    rebuilt,   \* the value returned by with_exprs_and_input (or NoIR / PanicIR)
    irpc,      \* position of the rewriting pass
    exact,     \* the containers hold exactly what was extracted from ir
    \* ---- expression lowering (expr_to_ir.rs)
    arena,     \* ctx.arena: Arena<AExpr>, a sequence of expression nodes
    call,      \* the last lowering call: entry point, argument, arena before, result
    \* ---- function options (options.rs)
    options,   \* a FunctionOptions value
    built,     \* how it was obtained: the constructor, and the methods called since
    \* ---- transpose (transpose.rs)
    tcall,     \* the transpose call: the frame, the arguments, the result
    tpc,       \* its position: "idle", "filling" (numeric_transpose at work), "done"
    nt,        \* numeric_transpose: cols, names_out, the two buffers, the work items
    \* ---- cut / qcut (cut.rs)
    cutcall    \* the last cut or qcut call: the arguments, what was binned, the result

irVars == <<ir, cexprs, cinputs, e0, i0, rebuilt, irpc, exact>>
lowerVars == <<arena, call>>
optVars == <<options, built>>
transposeVars == <<tcall, tpc, nt>>
vars == <<irVars, lowerVars, optVars, transposeVars, cutcall>>

\* What an action of one part leaves alone in the other parts.
notIR == <<lowerVars, optVars, transposeVars, cutcall>>
notLower == <<irVars, optVars, transposeVars, cutcall>>
notOptions == <<irVars, lowerVars, transposeVars, cutcall>>
notTranspose == <<irVars, lowerVars, optVars, cutcall>>
notCut == <<irVars, lowerVars, optVars, transposeVars>>

(***************************************************************************)
(* Bounds                                                                  *)
(***************************************************************************)
\* longest expression list / input list of a generated plan node
MaxList == 2
\* number of distinct metadata profiles of a generated plan node
NMeta == 2
\* longest list of expressions in a generated expression (SortBy.by,
\* Window.partition_by, function inputs) and in a to_expr_irs call
MaxArgs == 2
\* most nodes earlier lowering calls have left in the arena
MaxEarlier == 1
\* most method calls made on one FunctionOptions value
MaxCalls == 3
\* most rows and most columns of a frame given to transpose
MaxHeight == 2
MaxWidth == 2
\* most breaks given to cut, most probabilities given to qcut
MaxBreaks == 2

(***************************************************************************)
(* Generic helpers                                                         *)
(***************************************************************************)
Take(s, n) == SubSeq(s, 1, n)

Drop(s, n) == SubSeq(s, n + 1, Len(s))

Last(s) == s[Len(s)]

Front(s) == SubSeq(s, 1, Len(s) - 1)

MapSeq(s, F(_)) == [i \in 1..Len(s) |-> F(s[i])]

\* Option<T>: None is the empty sequence, Some(v) is <<v>>.
None == <<>>

Some(v) == <<v>>

IsSome(o) == Len(o) = 1

Unwrap(o) == o[1]

(***************************************************************************)
(* Plan nodes (ir/mod.rs, enum IR)                                         *)
(* ExprIR values and plan handles are opaque to inputs.rs (it only moves   *)
(* and clones them), so they are tokens here.  The generated nodes hold    *)
(* pairwise different tokens in all their expression slots and in all      *)
(* their input slots, so that any reordering or mis-slicing is visible.    *)
(***************************************************************************)
\* The n tokens from+1 .. from+n, in order.
Tokens(from, n) == [i \in 1..n |-> from + i]

Lens == 0..MaxList

\* The value of metadata field number i in metadata profile m: every field of
\* a node holds a different value, and the value differs between profiles.
Meta(m, i) == 10 * m + i

MetaBool(m) == m % 2 = 1

\* SortColumnIR entries of a partitioned sink: the expression and its flags.
SortColumn(e, m) == [expr |-> e, descending |-> MetaBool(m), nulls_last |-> ~MetaBool(m)]

PartitionVariants(m, k) ==
    {[v |-> "MaxSize", max_size |-> Meta(m, 3)],
     [v |-> "Parted", key_exprs |-> Tokens(0, k), include_key |-> MetaBool(m)],
     [v |-> "ByKey", key_exprs |-> Tokens(0, k), include_key |-> MetaBool(m)]}

SinkPayloads(m) ==
    {[kind |-> "Memory"], [kind |-> "File", target |-> Meta(m, 1)]}
    \cup {[kind |-> "Partition", base_path |-> Meta(m, 2), variant |-> pv,
           per_partition_sort_by |-> sb] :
            pv \in UNION {PartitionVariants(m, k) : k \in Lens},
            sb \in {None} \cup
                   {Some(MapSeq(Tokens(MaxList, n), LAMBDA e : SortColumn(e, m))) : n \in Lens}}

NodesOfMeta(m) ==
    {[type |-> "PythonScan", options |-> Meta(m, 1)],
     [type |-> "Slice", input |-> 1, offset |-> Meta(m, 1), len |-> Meta(m, 2)],
     [type |-> "Filter", input |-> 1, predicate |-> 1],
     [type |-> "DataFrameScan", df |-> Meta(m, 1), schema |-> Meta(m, 2),
      output_schema |-> Meta(m, 3)],
     [type |-> "SimpleProjection", input |-> 1, columns |-> Meta(m, 1)],
     [type |-> "Cache", input |-> 1, id |-> Meta(m, 1), cache_hits |-> Meta(m, 2)],
     [type |-> "Distinct", input |-> 1, options |-> Meta(m, 1)],
     [type |-> "MapFunction", input |-> 1, function |-> Meta(m, 1)],
     [type |-> "MergeSorted", input_left |-> 1, input_right |-> 2, key |-> Meta(m, 1)]}
    \cup {[type |-> "Scan", sources |-> Meta(m, 1), file_info |-> Meta(m, 2),
           hive_parts |-> Meta(m, 3), predicate |-> p, output_schema |-> Meta(m, 4),
           scan_type |-> Meta(m, 5), unified_scan_args |-> Meta(m, 6)] :
            p \in {None, Some(1)}}
    \cup {[type |-> "Select", input |-> 1, expr |-> Tokens(0, n), schema |-> Meta(m, 1),
           options |-> Meta(m, 2)] : n \in Lens}
    \cup {[type |-> "Sort", input |-> 1, by_column |-> Tokens(0, n), slice |-> Meta(m, 1),
           sort_options |-> Meta(m, 2)] : n \in Lens}
    \cup {[type |-> "GroupBy", input |-> 1, keys |-> Tokens(0, k), aggs |-> Tokens(k, a),
           schema |-> Meta(m, 1), maintain_order |-> MetaBool(m), options |-> Meta(m, 2),
           apply |-> Meta(m, 3)] : k \in Lens, a \in Lens}
    \cup {[type |-> "Join", input_left |-> 1, input_right |-> 2, schema |-> Meta(m, 1),
           left_on |-> Tokens(0, l), right_on |-> Tokens(l, r), options |-> Meta(m, 2)] :
            l \in Lens, r \in Lens}
    \cup {[type |-> "HStack", input |-> 1, exprs |-> Tokens(0, n), schema |-> Meta(m, 1),
           options |-> Meta(m, 2)] : n \in Lens}
    \cup {[type |-> "Union", inputs |-> Tokens(0, n), options |-> Meta(m, 1)] : n \in Lens}
    \cup {[type |-> "HConcat", inputs |-> Tokens(0, n), schema |-> Meta(m, 1),
           options |-> Meta(m, 2)] : n \in Lens}
    \cup {[type |-> "ExtContext", input |-> n + 1, contexts |-> Tokens(0, n),
           schema |-> Meta(m, 1)] : n \in Lens}
    \cup {[type |-> "Sink", input |-> 1, payload |-> p] : p \in SinkPayloads(m)}
    \cup {[type |-> "SinkMultiple", inputs |-> Tokens(0, n)] : n \in Lens}

IRNodes == UNION {NodesOfMeta(m) : m \in 1..NMeta}

\* No node has been returned yet.
NoIR == [type |-> "None"]

\* with_exprs_and_input panicked (index out of bounds, unwrap of None,
\* a failed assert!, unreachable!).
PanicIR == [type |-> "Panic"]


(***************************************************************************)
(* IR::copy_exprs (inputs.rs 176-227)                                      *)
(***************************************************************************)
\* Sink arm: the key expressions of a Parted / ByKey partition, then the
\* expressions of the per-partition sort columns.
SinkExprs(payload) ==
    IF payload.kind = "Partition"
    THEN (IF payload.variant.v \in {"Parted", "ByKey"}
          THEN payload.variant.key_exprs
          ELSE <<>>)
         \o (IF IsSome(payload.per_partition_sort_by)
             THEN MapSeq(Unwrap(payload.per_partition_sort_by), LAMBDA s : s.expr)
             ELSE <<>>)
    ELSE <<>>

\* A variant of GroupByExprs that extracts the aggregations first.
GroupByExprsAggsFirst(node) == node.aggs \o node.keys

GroupByExprs(node) == node.keys \o node.aggs

JoinExprs(node) == node.left_on \o node.right_on

ScanExprs(node) == IF IsSome(node.predicate) THEN <<Unwrap(node.predicate)>> ELSE <<>>

\* The expressions copy_exprs appends for `node`.
NodeExprs(node) ==
    CASE node.type \in {"Slice", "Cache", "Distinct", "Union", "MapFunction",
                        "SinkMultiple"} -> <<>>
      [] node.type = "Sort" -> node.by_column
      [] node.type = "Filter" -> <<node.predicate>>
      [] node.type = "Select" -> node.expr
      [] node.type = "GroupBy" -> GroupByExprs(node)
      [] node.type = "Join" -> JoinExprs(node)
      [] node.type = "HStack" -> node.exprs
      [] node.type = "Scan" -> ScanExprs(node)
      [] node.type \in {"DataFrameScan", "PythonScan"} -> <<>>
      [] node.type = "Sink" -> SinkExprs(node.payload)
      [] node.type \in {"HConcat", "ExtContext", "SimpleProjection", "MergeSorted"} -> <<>>

copy_exprs(node, container) == container \o NodeExprs(node)

\* IR::get_exprs (inputs.rs 230-234)
get_exprs(node) == copy_exprs(node, <<>>)

(***************************************************************************)
(* IR::copy_inputs (inputs.rs 239-290)                                     *)
(***************************************************************************)
BinaryInputs(node) == <<node.input_left, node.input_right>>

\* A variant of ExtContextInputs that extracts the primary input first.
ExtContextInputsInputFirst(node) == <<node.input>> \o node.contexts

ExtContextInputs(node) == node.contexts \o <<node.input>>

\* The plan handles copy_inputs appends for `node`.
NodeInputs(node) ==
    CASE node.type \in {"Union", "HConcat", "SinkMultiple"} -> node.inputs
      [] node.type \in {"Slice", "Filter", "Select", "SimpleProjection", "Sort", "Cache",
                        "GroupBy", "HStack", "Distinct", "MapFunction", "Sink"}
            -> <<node.input>>
      [] node.type \in {"Join", "MergeSorted"} -> BinaryInputs(node)
      [] node.type = "ExtContext" -> ExtContextInputs(node)
      [] node.type \in {"Scan", "DataFrameScan", "PythonScan"} -> <<>>

copy_inputs(node, container) == container \o NodeInputs(node)

\* IR::get_inputs_vec (inputs.rs 298-302)
get_inputs_vec(node) == copy_inputs(node, <<>>)

(***************************************************************************)
(* IR::with_exprs_and_input (inputs.rs 5-173)                              *)
(* A Rust panic (inputs[0] out of bounds, pop().unwrap() on an empty Vec,  *)
(* a slice range past the end, a failed assert!) yields PanicIR.           *)
(***************************************************************************)
\* GroupBy arm: keys are exprs[..keys.len()], aggs are exprs[keys.len()..].
RebuildGroupBy(node, exprs, inputs) ==
    IF Len(inputs) < 1 \/ Len(exprs) < Len(node.keys)
    THEN PanicIR
    ELSE [node EXCEPT !.input = inputs[1],
                      !.keys = Take(exprs, Len(node.keys)),
                      !.aggs = Drop(exprs, Len(node.keys))]

\* A variant of RebuildJoin that splits at the old right_on length, counted
\* from the end.
RebuildJoinSplitFromEnd(node, exprs, inputs) ==
    IF Len(inputs) < 2 \/ Len(exprs) < Len(node.right_on)
    THEN PanicIR
    ELSE [node EXCEPT !.input_left = inputs[1],
                      !.input_right = inputs[2],
                      !.left_on = Take(exprs, Len(exprs) - Len(node.right_on)),
                      !.right_on = Drop(exprs, Len(exprs) - Len(node.right_on))]

\* Join arm: left_on is exprs[..left_on.len()], right_on the rest.
RebuildJoin(node, exprs, inputs) ==
    IF Len(inputs) < 2 \/ Len(exprs) < Len(node.left_on)
    THEN PanicIR
    ELSE [node EXCEPT !.input_left = inputs[1],
                      !.input_right = inputs[2],
                      !.left_on = Take(exprs, Len(node.left_on)),
                      !.right_on = Drop(exprs, Len(node.left_on))]

\* A variant of RebuildSinkPayload that takes the sort expressions from the
\* front of exprs and the key expressions from what follows.
RebuildSinkPayloadSortFirst(payload, exprs) ==
    IF payload.kind # "Partition"
    THEN payload
    ELSE LET hasSort == IsSome(payload.per_partition_sort_by)
             n == IF hasSort THEN Len(Unwrap(payload.per_partition_sort_by)) ELSE 0
         IN  IF hasSort /\ ~(Len(exprs) >= n)
             THEN PanicIR
             ELSE LET drained == Take(exprs, n)
                      rest == Drop(exprs, n)
                      sorted ==
                          IF hasSort
                          THEN Some([i \in 1..n |->
                                    [Unwrap(payload.per_partition_sort_by)[i]
                                        EXCEPT !.expr = drained[i]]])
                          ELSE None
                  IN  IF payload.variant.v \in {"Parted", "ByKey"}
                      THEN (IF Len(payload.variant.key_exprs) # Len(rest)
                            THEN PanicIR
                            ELSE [payload EXCEPT !.per_partition_sort_by = sorted,
                                                 !.variant.key_exprs = rest])
                      ELSE [payload EXCEPT !.per_partition_sort_by = sorted]

\* Sink arm, the payload: the trailing sort_by.len() expressions are drained
\* into the sort columns; what is left becomes the key expressions of a
\* Parted / ByKey partition. The result is PanicIR when an assert fails.
RebuildSinkPayload(payload, exprs) ==
    IF payload.kind # "Partition"
    THEN payload
    ELSE LET hasSort == IsSome(payload.per_partition_sort_by)
             n == IF hasSort THEN Len(Unwrap(payload.per_partition_sort_by)) ELSE 0
         IN  IF hasSort /\ ~(Len(exprs) >= n)
             THEN PanicIR
             ELSE LET drained == Drop(exprs, Len(exprs) - n)
                      rest == Take(exprs, Len(exprs) - n)
                      sorted ==
                          IF hasSort
                          THEN Some([i \in 1..n |->
                                    [Unwrap(payload.per_partition_sort_by)[i]
                                        EXCEPT !.expr = drained[i]]])
                          ELSE None
                  IN  IF payload.variant.v \in {"Parted", "ByKey"}
                      THEN (IF Len(payload.variant.key_exprs) # Len(rest)
                            THEN PanicIR
                            ELSE [payload EXCEPT !.per_partition_sort_by = sorted,
                                                 !.variant.key_exprs = rest])
                      ELSE [payload EXCEPT !.per_partition_sort_by = sorted]

RebuildSink(node, exprs, inputs) ==
    LET payload == RebuildSinkPayload(node.payload, exprs)
    IN  IF payload = PanicIR \/ Len(inputs) < 1
        THEN PanicIR
        ELSE [node EXCEPT !.input = Last(inputs), !.payload = payload]

\* Scan arm: a predicate is taken (the last expression) iff the node had one.
RebuildScan(node, exprs, inputs) ==
    IF IsSome(node.predicate)
    THEN (IF Len(exprs) < 1 THEN PanicIR ELSE [node EXCEPT !.predicate = Some(Last(exprs))])
    ELSE node

\* Filter arm: the predicate is the last expression.
RebuildFilter(node, exprs, inputs) ==
    IF Len(inputs) < 1 \/ Len(exprs) < 1
    THEN PanicIR
    ELSE [node EXCEPT !.input = inputs[1], !.predicate = Last(exprs)]

\* A variant of RebuildExtContext that takes the input from the front.
RebuildExtContextInputFirst(node, exprs, inputs) ==
    IF Len(inputs) < 1
    THEN PanicIR
    ELSE [node EXCEPT !.input = inputs[1], !.contexts = Drop(inputs, 1)]

\* ExtContext arm: the input is popped off the end, the rest are the contexts.
RebuildExtContext(node, exprs, inputs) ==
    IF Len(inputs) < 1
    THEN PanicIR
    ELSE [node EXCEPT !.input = Last(inputs), !.contexts = Front(inputs)]

\* A variant of RebuildSingleInput that does not carry the hit count of a
\* Cache over.
RebuildSingleInputResetHits(node, exprs, inputs) ==
    IF Len(inputs) < 1
    THEN PanicIR
    ELSE IF node.type = "Cache"
         THEN [node EXCEPT !.input = inputs[1], !.cache_hits = 0]
         ELSE [node EXCEPT !.input = inputs[1]]

\* Arms that take inputs[0] and keep everything else.
RebuildSingleInput(node, exprs, inputs) ==
    IF Len(inputs) < 1 THEN PanicIR ELSE [node EXCEPT !.input = inputs[1]]

\* Arms that take inputs[0] and replace their one expression list by exprs.
RebuildExprList(node, exprs, inputs) ==
    IF Len(inputs) < 1
    THEN PanicIR
    ELSE CASE node.type = "Select" -> [node EXCEPT !.input = inputs[1], !.expr = exprs]
           [] node.type = "Sort" -> [node EXCEPT !.input = inputs[1], !.by_column = exprs]
           [] node.type = "HStack" -> [node EXCEPT !.input = inputs[1], !.exprs = exprs]

\* Arms that take all of inputs.
RebuildInputList(node, exprs, inputs) == [node EXCEPT !.inputs = inputs]

\* MergeSorted arm.
RebuildMergeSorted(node, exprs, inputs) ==
    IF Len(inputs) < 2
    THEN PanicIR
    ELSE [node EXCEPT !.input_left = inputs[1], !.input_right = inputs[2]]

\* SimpleProjection arm: the input is popped off the end.
RebuildSimpleProjection(node, exprs, inputs) ==
    IF Len(inputs) < 1 THEN PanicIR ELSE [node EXCEPT !.input = Last(inputs)]

with_exprs_and_input(node, exprs, inputs) ==
    CASE node.type \in {"PythonScan", "DataFrameScan"} -> node
      [] node.type \in {"Union", "HConcat", "SinkMultiple"}
            -> RebuildInputList(node, exprs, inputs)
      [] node.type \in {"Slice", "Cache", "Distinct", "MapFunction"}
            -> RebuildSingleInput(node, exprs, inputs)
      [] node.type = "Filter" -> RebuildFilter(node, exprs, inputs)
      [] node.type \in {"Select", "Sort", "HStack"} -> RebuildExprList(node, exprs, inputs)
      [] node.type = "GroupBy" -> RebuildGroupBy(node, exprs, inputs)
      [] node.type = "Join" -> RebuildJoin(node, exprs, inputs)
      [] node.type = "Scan" -> RebuildScan(node, exprs, inputs)
      [] node.type = "ExtContext" -> RebuildExtContext(node, exprs, inputs)
      [] node.type = "Sink" -> RebuildSink(node, exprs, inputs)
      [] node.type = "SimpleProjection" -> RebuildSimpleProjection(node, exprs, inputs)
      [] node.type = "MergeSorted" -> RebuildMergeSorted(node, exprs, inputs)

(***************************************************************************)
(* A rewriting pass over one plan node: extract the expressions and the    *)
(* inputs into the caller's containers, possibly rewrite them, and rebuild *)
(* the node from them.                                                     *)
(***************************************************************************)
\* what a container may hold before the extraction (left by the caller)
Stale == 0

\* an expression or input after the pass has rewritten it
Rewritten(t) == t + 100

IsRewritten(t) == t > 100

\* an expression or input the pass adds
Fresh == 99

\* the part of a container that follows what it held before the extraction
ExtractedExprs == Drop(cexprs, e0)

ExtractedInputs == Drop(cinputs, i0)

\* No call has been made.
NoCall == [fn |-> "none"]

\* No FunctionOptions value has been made.
NoOptions == [check_lengths |-> TRUE, flags |-> {}, cast_options |-> <<>>]

InitIR ==
    /\ ir \in IRNodes
    /\ \E stale \in BOOLEAN :
        /\ cexprs = IF stale THEN <<Stale>> ELSE <<>>
        /\ cinputs = IF stale THEN <<Stale>> ELSE <<>>
    /\ e0 = 0
    /\ i0 = 0
    /\ rebuilt = NoIR
    /\ irpc = "start"
    /\ exact = FALSE
    /\ arena = <<>>
    /\ call = NoCall
    /\ options = NoOptions
    /\ built = <<>>
    /\ tcall = NoCall
    /\ tpc = "idle"
    /\ nt = NoCall
    /\ cutcall = NoCall

\* node.copy_exprs(&mut container)
CopyExprs ==
    /\ irpc = "start"
    /\ e0' = Len(cexprs)
    /\ cexprs' = copy_exprs(ir, cexprs)
    /\ irpc' = "exprs"
    /\ UNCHANGED <<ir, cinputs, i0, rebuilt, exact, notIR>>

\* node.copy_inputs(&mut container)
CopyInputs ==
    /\ irpc = "exprs"
    /\ i0' = Len(cinputs)
    /\ cinputs' = copy_inputs(ir, cinputs)
    /\ irpc' = "copied"
    /\ exact' = TRUE
    /\ UNCHANGED <<ir, cexprs, e0, rebuilt, notIR>>

\* the pass rewrites every extracted expression
RewriteExprs ==
    /\ irpc = "copied"
    /\ ExtractedExprs # <<>>
    /\ \A i \in 1..Len(ExtractedExprs) : ~IsRewritten(ExtractedExprs[i])
    /\ cexprs' = Take(cexprs, e0) \o MapSeq(ExtractedExprs, Rewritten)
    /\ exact' = FALSE
    /\ UNCHANGED <<ir, cinputs, e0, i0, rebuilt, irpc, notIR>>

\* the pass rewrites every extracted input
RewriteInputs ==
    /\ irpc = "copied"
    /\ ExtractedInputs # <<>>
    /\ \A i \in 1..Len(ExtractedInputs) : ~IsRewritten(ExtractedInputs[i])
    /\ cinputs' = Take(cinputs, i0) \o MapSeq(ExtractedInputs, Rewritten)
    /\ exact' = FALSE
    /\ UNCHANGED <<ir, cexprs, e0, i0, rebuilt, irpc, notIR>>

\* the pass removes the last extracted expression
DropExpr ==
    /\ irpc = "copied"
    /\ Len(ExtractedExprs) > 0
    /\ Len(ExtractedExprs) = Len(NodeExprs(ir))
    /\ cexprs' = Front(cexprs)
    /\ exact' = FALSE
    /\ UNCHANGED <<ir, cinputs, e0, i0, rebuilt, irpc, notIR>>

\* the pass adds an expression
PushExpr ==
    /\ irpc = "copied"
    /\ Len(ExtractedExprs) = Len(NodeExprs(ir))
    /\ cexprs' = Append(cexprs, Fresh)
    /\ exact' = FALSE
    /\ UNCHANGED <<ir, cinputs, e0, i0, rebuilt, irpc, notIR>>

\* the pass removes the last extracted input
DropInput ==
    /\ irpc = "copied"
    /\ Len(ExtractedInputs) > 0
    /\ Len(ExtractedInputs) = Len(NodeInputs(ir))
    /\ cinputs' = Front(cinputs)
    /\ exact' = FALSE
    /\ UNCHANGED <<ir, cexprs, e0, i0, rebuilt, irpc, notIR>>

\* the pass adds an input
PushInput ==
    /\ irpc = "copied"
    /\ Len(ExtractedInputs) = Len(NodeInputs(ir))
    /\ cinputs' = Append(cinputs, Fresh)
    /\ exact' = FALSE
    /\ UNCHANGED <<ir, cexprs, e0, i0, rebuilt, irpc, notIR>>

\* node.with_exprs_and_input(exprs, inputs)
WithExprsAndInput ==
    /\ irpc = "copied"
    /\ rebuilt' = with_exprs_and_input(ir, ExtractedExprs, ExtractedInputs)
    /\ irpc' = "done"
    /\ UNCHANGED <<ir, cexprs, cinputs, e0, i0, exact, notIR>>

NextIR ==
    \/ CopyExprs
    \/ CopyInputs
    \/ RewriteExprs
    \/ RewriteInputs
    \/ DropExpr
    \/ PushExpr
    \/ DropInput
    \/ PushInput
    \/ WithExprsAndInput

SpecIR == InitIR /\ [][NextIR]_vars

(***************************************************************************)
(* Properties of extraction and reconstruction                             *)
(***************************************************************************)
\* what the containers held before the extraction is still at their front
PrefixKept(container, n) == Take(container, n) = [i \in 1..n |-> Stale]

\* C1: round trip.  Rebuilding a node from exactly the expressions and
\* inputs that copy_exprs and copy_inputs extracted from it returns a node
\* equal to the original in every field, for every variant.
C1_RoundTrip == (irpc = "done" /\ exact) => rebuilt = ir

\* C1 witness: an ExtContext with contexts was rebuilt
\* from what was extracted from it.
C1_Witness ==
    /\ irpc = "done"
    /\ exact
    /\ ir.type = "ExtContext"
    /\ Len(ir.contexts) = MaxList
    /\ rebuilt = ir

\* The expressions C2 says copy_exprs appends for a node (every variant but
\* Sink, which C6 covers).
C2_Expected(node) ==
    CASE node.type = "GroupBy" -> node.keys \o node.aggs
      [] node.type = "Join" -> node.left_on \o node.right_on
      [] node.type = "Sort" -> node.by_column
      [] node.type = "Select" -> node.expr
      [] node.type = "HStack" -> node.exprs
      [] node.type = "Filter" -> <<node.predicate>>
      [] node.type = "Scan" -> node.predicate
      [] OTHER -> <<>>

\* C2: copy_exprs appends to the container exactly the expressions the node
\* owns, in canonical order (GroupBy: keys then aggregations; Join: left
\* keys then right keys; Sort, Select, HStack: their list; Filter: its
\* predicate; Scan: its predicate iff it has one; the others: nothing), and
\* leaves what the container held before in place.
C2_CopyExprsOrder ==
    (irpc = "exprs" /\ ir.type # "Sink") =>
        /\ PrefixKept(cexprs, e0)
        /\ ExtractedExprs = C2_Expected(ir)

\* C2 witness: copy_exprs has run on a GroupBy with keys and aggregations,
\* on a container that was not empty.
C2_Witness ==
    /\ irpc = "exprs"
    /\ ir.type = "GroupBy"
    /\ Len(ir.keys) = MaxList
    /\ Len(ir.aggs) > 0
    /\ e0 > 0

\* The inputs C3 says copy_inputs appends for a node.
C3_Expected(node) ==
    CASE node.type \in {"Join", "MergeSorted"} -> <<node.input_left, node.input_right>>
      [] node.type \in {"Union", "HConcat", "SinkMultiple"} -> node.inputs
      [] node.type = "ExtContext" -> node.contexts \o <<node.input>>
      [] node.type \in {"Scan", "DataFrameScan", "PythonScan"} -> <<>>
      [] OTHER -> <<node.input>>

\* C3: copy_inputs appends the child plan handles in a fixed order (Join,
\* MergeSorted: left then right; Union, HConcat, SinkMultiple: all children
\* in stored order; ExtContext: the contexts then the primary input; Scan,
\* DataFrameScan, PythonScan: nothing; the others: their single input).
C3_CopyInputsOrder ==
    (irpc = "copied" /\ exact) =>
        /\ PrefixKept(cinputs, i0)
        /\ ExtractedInputs = C3_Expected(ir)

\* C3 witness: copy_inputs has run on an ExtContext with contexts, on a
\* container that was not empty.
C3_Witness ==
    /\ irpc = "copied"
    /\ exact
    /\ ir.type = "ExtContext"
    /\ Len(ir.contexts) = MaxList
    /\ i0 > 0

\* The fields of a node that hold its expressions and child plans.
TreeFields ==
    {"input", "inputs", "input_left", "input_right", "contexts", "predicate", "expr",
     "exprs", "by_column", "keys", "aggs", "left_on", "right_on", "payload"}

\* A sink payload with its expressions blanked: what is left is its target,
\* its partition variant and the flags of its sort columns.
PayloadFrame(payload) ==
    IF payload.kind # "Partition"
    THEN payload
    ELSE LET p1 == IF payload.variant.v \in {"Parted", "ByKey"}
                   THEN [payload EXCEPT !.variant.key_exprs =
                            [i \in 1..Len(payload.variant.key_exprs) |-> 0]]
                   ELSE payload
         IN  IF IsSome(p1.per_partition_sort_by)
             THEN [p1 EXCEPT !.per_partition_sort_by =
                      Some(MapSeq(Unwrap(p1.per_partition_sort_by),
                                  LAMBDA c : [c EXCEPT !.expr = 0]))]
             ELSE p1

Range(seq) == {seq[i] : i \in 1..Len(seq)}

\* C4: with_exprs_and_input returns a node of the same variant in which
\* only the expression fields and the child plan handles come from the
\* arguments; every other field equals the original node's value.
C4_Frame ==
    (irpc = "done" /\ rebuilt # PanicIR) =>
        /\ rebuilt.type = ir.type
        /\ DOMAIN rebuilt = DOMAIN ir
        /\ \A f \in (DOMAIN ir) \ TreeFields : rebuilt[f] = ir[f]
        /\ ir.type = "Sink" => PayloadFrame(rebuilt.payload) = PayloadFrame(ir.payload)
        /\ ir.type = "Scan" => Len(rebuilt.predicate) = Len(ir.predicate)
        /\ Range(NodeExprs(rebuilt)) \subseteq Range(ExtractedExprs)
        /\ Range(NodeInputs(rebuilt)) \subseteq Range(ExtractedInputs)

\* C4 witness: a Cache was rebuilt over a rewritten input.
C4_Witness ==
    /\ irpc = "done"
    /\ ir.type = "Cache"
    /\ rebuilt # PanicIR
    /\ rebuilt.input = Rewritten(ir.input)
    /\ rebuilt.cache_hits = ir.cache_hits

\* C5: a rebuilt GroupBy has the first keys.len() entries of new_exprs as
\* keys and all the remaining entries as aggregations, a rebuilt Join the
\* first left_on.len() entries as left keys and the remaining ones as right
\* keys (the lengths being those of the original node); so the number of
\* keys / left keys is unchanged and keys ++ aggs (left_on ++ right_on) is
\* new_exprs.
C5_Slicing ==
    (irpc = "done" /\ rebuilt # PanicIR) =>
        /\ ir.type = "GroupBy" =>
            /\ rebuilt.keys = Take(ExtractedExprs, Len(ir.keys))
            /\ rebuilt.aggs = Drop(ExtractedExprs, Len(ir.keys))
            /\ Len(rebuilt.keys) = Len(ir.keys)
            /\ rebuilt.keys \o rebuilt.aggs = ExtractedExprs
        /\ ir.type = "Join" =>
            /\ rebuilt.left_on = Take(ExtractedExprs, Len(ir.left_on))
            /\ rebuilt.right_on = Drop(ExtractedExprs, Len(ir.left_on))
            /\ Len(rebuilt.left_on) = Len(ir.left_on)
            /\ rebuilt.left_on \o rebuilt.right_on = ExtractedExprs

\* C5 witness: a Join with left and right keys was rebuilt from a container
\* the pass had added an expression to; the added expression is a right key.
C5_Witness ==
    /\ irpc = "done"
    /\ ir.type = "Join"
    /\ Len(ir.left_on) > 0
    /\ Len(ir.right_on) > 0
    /\ rebuilt # PanicIR
    /\ Len(rebuilt.right_on) = Len(ir.right_on) + 1

\* the expressions of the sort columns of a partitioned sink payload
SortByExprs(payload) ==
    IF IsSome(payload.per_partition_sort_by)
    THEN MapSeq(Unwrap(payload.per_partition_sort_by), LAMBDA c : c.expr)
    ELSE <<>>

\* the key expressions of a partitioned sink payload
KeyExprs(payload) ==
    IF payload.variant.v \in {"Parted", "ByKey"} THEN payload.variant.key_exprs ELSE <<>>

\* C6: for a partitioned Sink, copy_exprs appends the key expressions
\* (Parted / ByKey only) followed by the per-partition sort expressions;
\* with_exprs_and_input gives the trailing sort_by.len() entries of
\* new_exprs, in order, to the sort columns and the leading entries to the
\* key expressions; the two use the same slicing, so a partitioned sink
\* rebuilt from what was extracted from it is the original, for every key
\* variant with and without a per-partition sort.
C6_SinkSlicing ==
    (ir.type = "Sink" /\ ir.payload.kind = "Partition") =>
        /\ irpc = "exprs" =>
            ExtractedExprs = KeyExprs(ir.payload) \o SortByExprs(ir.payload)
        /\ (irpc = "done" /\ rebuilt # PanicIR) =>
            LET n == Len(SortByExprs(ir.payload))
            IN  /\ SortByExprs(rebuilt.payload) =
                       Drop(ExtractedExprs, Len(ExtractedExprs) - n)
                /\ rebuilt.payload.variant.v \in {"Parted", "ByKey"} =>
                       KeyExprs(rebuilt.payload) =
                           Take(ExtractedExprs, Len(ExtractedExprs) - n)
        /\ (irpc = "done" /\ exact) => rebuilt = ir

\* C6 witness: a ByKey sink with key and sort expressions was rebuilt from
\* rewritten expressions.
C6_Witness ==
    /\ irpc = "done"
    /\ ir.type = "Sink"
    /\ ir.payload.kind = "Partition"
    /\ ir.payload.variant.v = "ByKey"
    /\ Len(KeyExprs(ir.payload)) = MaxList
    /\ Len(SortByExprs(ir.payload)) = MaxList
    /\ rebuilt # PanicIR
    /\ KeyExprs(rebuilt.payload) = MapSeq(KeyExprs(ir.payload), Rewritten)
    /\ SortByExprs(rebuilt.payload) = MapSeq(SortByExprs(ir.payload), Rewritten)

(***************************************************************************)
(* Expression lowering (dsl_to_ir/expr_to_ir.rs)                           *)
(*                                                                         *)
(* A DSL expression (Expr) is a record tagged by k, holding its            *)
(* sub-expressions.  An arena node (AExpr) is a record tagged by k,        *)
(* holding the handles (Node) of its children.  A Node is the index the    *)
(* arena issued: 0 for the first node.                                     *)
(***************************************************************************)
\* LiteralValue::Dyn(_): a literal whose concrete type is not yet resolved.
IsDyn(lv) == lv.variant = "Dyn"

\* LiteralValue::materialize: a Dyn literal becomes a literal of a concrete
\* type; any other literal is returned as it is.
Materialize(lv) ==
    IF IsDyn(lv)
    THEN [lv EXCEPT !.variant = "Scalar",
                    !.dtype = CASE lv.dtype = "dyn_int" -> "Int32"
                                [] lv.dtype = "dyn_float" -> "Float64"
                                [] OTHER -> "String"]
    ELSE lv

\* LiteralValue::output_column_name: the name of a Series literal is the
\* series' name, that of any other literal is "literal".
LiteralName(lv) == IF lv.variant = "Series" THEN lv.name ELSE "literal"

\* get_len_name()
LenName == "len"

\* Arena::get
Get(a, node) == a[node + 1]

\* The results of a lowering call: Ok((node, output_name)) or Err(kind),
\* with the arena as the call leaves it.
\* A PolarsError: its kind and, where the message names a field, that
\* field.  NoErr stands for the absence of an error in an Ok result.
PolarsError(kind, field) == [kind |-> kind, field |-> field]

NoErr == PolarsError("", "")

OkRes(node, name, a) ==
    [ok |-> TRUE, node |-> node, name |-> name, err |-> NoErr, arena |-> a]

\* polars_bail!(kind: ..) and the errors of `?` on the calls the arms make
ErrRes(kind, a) ==
    [ok |-> FALSE, node |-> 0 - 1, name |-> "", err |-> PolarsError(kind, ""), arena |-> a]

\* `?` on a call that returned a list: the error is passed on
Propagate(r) ==
    [ok |-> FALSE, node |-> 0 - 1, name |-> "", err |-> r.err, arena |-> r.arena]

\* expr_to_ir.rs 462: Ok((ctx.arena.add(v), output_name)).  Arena::add
\* appends the node and returns its index.
AddNode(a, v, name) == OkRes(Len(a), name, Append(a, v))

\* ExprIR::new(node, OutputName::Alias(output_name))
ExprIR(node, name) == [node |-> node, output_name |-> [policy |-> "Alias", name |-> name]]

\* ExprToIRContext with another arena state
WithArena(ctx, a) == [ctx EXCEPT !.arena = a]

\* `let x = v; ...`: the value of v is computed once and the rest F of the
\* code runs on it.
Let(v, F(_)) == CHOOSE y \in {F(x) : x \in {v}} : TRUE

RECURSIVE to_aexpr_impl(_, _)

RECURSIVE to_aexpr_impl_materialized_lit(_, _)

RECURSIVE LowerNodes(_, _, _, _)

RECURSIVE LowerExprIRs(_, _, _)

\* `.into_iter().map(|e| Ok(f(e, ctx)?.0)).collect::<PolarsResult<_>>()`:
\* lowers es in order with to_aexpr_impl (materialized = FALSE) or with
\* to_aexpr_impl_materialized_lit, stops at the first error; acc holds the
\* handles so far.  The result's node field is unused, nodes is the list.
LowerNodes(es, ctx, materialized, acc) ==
    IF es = <<>>
    THEN [ok |-> TRUE, nodes |-> acc, err |-> NoErr, arena |-> ctx.arena]
    ELSE Let(IF materialized
             THEN to_aexpr_impl_materialized_lit(Head(es), ctx)
             ELSE to_aexpr_impl(Head(es), ctx),
             LAMBDA r :
                IF ~r.ok
                THEN [ok |-> FALSE, nodes |-> <<>>, err |-> r.err, arena |-> r.arena]
                ELSE LowerNodes(Tail(es), WithArena(ctx, r.arena), materialized,
                                Append(acc, r.node)))

\* a to_expr_ir_with_context that empties the arena when the lowering fails
ToExprIrWithContextClearsOnError(expr, ctx) ==
    Let(to_aexpr_impl(expr, ctx), LAMBDA r :
        IF ~r.ok
        THEN [ok |-> FALSE, irs |-> <<>>, err |-> r.err, arena |-> <<>>]
        ELSE [ok |-> TRUE, irs |-> <<ExprIR(r.node, r.name)>>, err |-> NoErr,
              arena |-> r.arena])

\* to_expr_ir_with_context (14-17), as a result record holding the ExprIR
to_expr_ir_with_context(expr, ctx) ==
    Let(to_aexpr_impl(expr, ctx), LAMBDA r :
        IF ~r.ok
        THEN [ok |-> FALSE, irs |-> <<>>, err |-> r.err, arena |-> r.arena]
        ELSE [ok |-> TRUE, irs |-> <<ExprIR(r.node, r.name)>>, err |-> NoErr,
              arena |-> r.arena])

\* a to_expr_irs_with_context that materializes the deferred literals among
\* the inputs
LowerExprIRsMaterialized(es, ctx, acc) ==
    IF es = <<>>
    THEN [ok |-> TRUE, irs |-> acc, err |-> NoErr, arena |-> ctx.arena]
    ELSE Let(to_aexpr_impl_materialized_lit(Head(es), ctx), LAMBDA r :
             IF ~r.ok
             THEN [ok |-> FALSE, irs |-> <<>>, err |-> r.err, arena |-> r.arena]
             ELSE LowerExprIRs(Tail(es), WithArena(ctx, r.arena),
                               Append(acc, ExprIR(r.node, r.name))))

\* to_expr_irs_with_context (44-52): lowers the inputs in order, stops at
\* the first error; acc holds the ExprIRs so far.
LowerExprIRs(es, ctx, acc) ==
    IF es = <<>>
    THEN [ok |-> TRUE, irs |-> acc, err |-> NoErr, arena |-> ctx.arena]
    ELSE Let(to_expr_ir_with_context(Head(es), ctx), LAMBDA r :
             IF ~r.ok
             THEN [ok |-> FALSE, irs |-> <<>>, err |-> r.err, arena |-> r.arena]
             ELSE LowerExprIRs(Tail(es), WithArena(ctx, r.arena), acc \o r.irs))

to_expr_irs_with_context(input, ctx) == LowerExprIRs(input, ctx, <<>>)

(***************************************************************************)
(* The arms of to_aexpr_impl (80-463).  Each returns what the arm leaves   *)
(* as the call's result; `?` returns the first error with the arena as it  *)
(* is then (nodes already inserted stay in it).                            *)
(***************************************************************************)
\* Expr::Explode (86-89)
LowerExplode(expr, ctx) ==
    Let(to_aexpr_impl(expr.input, ctx), LAMBDA r :
        IF ~r.ok
        THEN r
        ELSE AddNode(r.arena,
                     [k |-> "Explode", expr |-> r.node, skip_empty |-> expr.skip_empty],
                     r.name))

\* an Alias arm that inserts a node of its own: a copy of the node of the
\* lowered expression, under the new name
LowerAliasAddsNode(expr, ctx) ==
    Let(to_aexpr_impl(expr.e, ctx), LAMBDA r :
        IF ~r.ok THEN r ELSE AddNode(r.arena, Get(r.arena, r.node), expr.name))

\* Expr::Alias (90): the handle of the lowered inner expression, renamed;
\* no node is added.
LowerAlias(expr, ctx) ==
    Let(to_aexpr_impl(expr.e, ctx), LAMBDA r :
        IF ~r.ok THEN r ELSE OkRes(r.node, expr.name, r.arena))

\* Expr::Literal (91-94): the literal is inserted as it is.
LowerLiteral(expr, ctx) ==
    AddNode(ctx.arena, [k |-> "Literal", lv |-> expr.lv], LiteralName(expr.lv))

\* Expr::Column (95)
LowerColumn(expr, ctx) ==
    AddNode(ctx.arena, [k |-> "Column", name |-> expr.name], expr.name)

\* a BinaryExpr arm that propagates the name of the right operand
LowerBinaryExprNameOfRight(expr, ctx) ==
    Let(to_aexpr_impl(expr.left, ctx), LAMBDA l :
        IF ~l.ok
        THEN l
        ELSE Let(to_aexpr_impl(expr.right, WithArena(ctx, l.arena)), LAMBDA r :
                 IF ~r.ok
                 THEN r
                 ELSE AddNode(r.arena,
                              [k |-> "BinaryExpr", left |-> l.node, op |-> expr.op,
                               right |-> r.node],
                              r.name)))

\* Expr::BinaryExpr (96-107): left, then right; the name is the left one's.
LowerBinaryExpr(expr, ctx) ==
    Let(to_aexpr_impl(expr.left, ctx), LAMBDA l :
        IF ~l.ok
        THEN l
        ELSE Let(to_aexpr_impl(expr.right, WithArena(ctx, l.arena)), LAMBDA r :
                 IF ~r.ok
                 THEN r
                 ELSE AddNode(r.arena,
                              [k |-> "BinaryExpr", left |-> l.node, op |-> expr.op,
                               right |-> r.node],
                              l.name)))

\* Expr::Cast (108-122): dtype.into_datatype(ctx.schema)? fails for a dtype
\* that does not resolve.
LowerCast(expr, ctx) ==
    Let(to_aexpr_impl(expr.expr, ctx), LAMBDA r :
        IF ~r.ok
        THEN r
        ELSE IF expr.dtype = "unresolvable"
             THEN ErrRes("ResolveError", r.arena)
             ELSE AddNode(r.arena,
                          [k |-> "Cast", expr |-> r.node, dtype |-> expr.dtype,
                           options |-> expr.options],
                          r.name))

\* a Gather arm that lowers the index with to_aexpr_impl
LowerGatherDeferred(expr, ctx) ==
    Let(to_aexpr_impl(expr.expr, ctx), LAMBDA r :
        IF ~r.ok
        THEN r
        ELSE Let(to_aexpr_impl(expr.idx, WithArena(ctx, r.arena)), LAMBDA i :
                 IF ~i.ok
                 THEN i
                 ELSE AddNode(i.arena,
                              [k |-> "Gather", expr |-> r.node, idx |-> i.node,
                               returns_scalar |-> expr.returns_scalar],
                              r.name)))

\* Expr::Gather (123-138): the index is lowered with
\* to_aexpr_impl_materialized_lit.
LowerGather(expr, ctx) ==
    Let(to_aexpr_impl(expr.expr, ctx), LAMBDA r :
        IF ~r.ok
        THEN r
        ELSE Let(to_aexpr_impl_materialized_lit(expr.idx, WithArena(ctx, r.arena)),
                 LAMBDA i :
                    IF ~i.ok
                    THEN i
                    ELSE AddNode(i.arena,
                                 [k |-> "Gather", expr |-> r.node, idx |-> i.node,
                                  returns_scalar |-> expr.returns_scalar],
                                 r.name)))

\* a Sort arm that stores the handle the Sort node itself gets instead of
\* the handle of its input
LowerSortStoresOwnHandle(expr, ctx) ==
    Let(to_aexpr_impl(expr.expr, ctx), LAMBDA r :
        IF ~r.ok
        THEN r
        ELSE AddNode(r.arena,
                     [k |-> "Sort", expr |-> Len(r.arena), options |-> expr.options],
                     r.name))

\* Expr::Sort (139-142)
LowerSort(expr, ctx) ==
    Let(to_aexpr_impl(expr.expr, ctx), LAMBDA r :
        IF ~r.ok
        THEN r
        ELSE AddNode(r.arena,
                     [k |-> "Sort", expr |-> r.node, options |-> expr.options],
                     r.name))

\* Expr::SortBy (143-162): each `by` entry is lowered with to_aexpr_impl.
LowerSortBy(expr, ctx) ==
    Let(to_aexpr_impl(expr.expr, ctx), LAMBDA r :
        IF ~r.ok
        THEN r
        ELSE Let(LowerNodes(expr.by, WithArena(ctx, r.arena), FALSE, <<>>), LAMBDA by :
                 IF ~by.ok
                 THEN Propagate(by)
                 ELSE AddNode(by.arena,
                              [k |-> "SortBy", expr |-> r.node, by |-> by.nodes,
                               sort_options |-> expr.sort_options],
                              r.name)))

\* Expr::Filter (163-167): the predicate `by` is lowered with to_aexpr_impl.
LowerFilter(expr, ctx) ==
    Let(to_aexpr_impl(expr.input, ctx), LAMBDA r :
        IF ~r.ok
        THEN r
        ELSE Let(to_aexpr_impl(expr.by, WithArena(ctx, r.arena)), LAMBDA by :
                 IF ~by.ok
                 THEN by
                 ELSE AddNode(by.arena,
                              [k |-> "Filter", input |-> r.node, by |-> by.node],
                              r.name)))

\* The aggregates with a single input.
SingleInputAggs ==
    {"Min", "Max", "Median", "NUnique", "First", "Last", "Mean", "Implode", "Count", "Sum",
     "Std", "Var", "AggGroups"}

\* an aggregate arm that lowers its input with to_aexpr_impl
LowerAggSingleDeferred(expr, ctx) ==
    Let(to_aexpr_impl(expr.input, ctx), LAMBDA r :
        IF ~r.ok
        THEN r
        ELSE AddNode(r.arena, [expr EXCEPT !.input = r.node], r.name))

\* Expr::Agg, every variant but Quantile (170-223, 240-255): the input is
\* lowered with to_aexpr_impl_materialized_lit; the flags of the variant
\* (propagate_nans, include_nulls, ddof) are carried over.
LowerAggSingle(expr, ctx) ==
    Let(to_aexpr_impl_materialized_lit(expr.input, ctx), LAMBDA r :
        IF ~r.ok
        THEN r
        ELSE AddNode(r.arena, [expr EXCEPT !.input = r.node], r.name))

\* Expr::Agg(AggExpr::Quantile) (224-239): expr, then quantile, both with
\* to_aexpr_impl_materialized_lit.
LowerAggQuantile(expr, ctx) ==
    Let(to_aexpr_impl_materialized_lit(expr.expr, ctx), LAMBDA r :
        IF ~r.ok
        THEN r
        ELSE Let(to_aexpr_impl_materialized_lit(expr.quantile, WithArena(ctx, r.arena)),
                 LAMBDA q :
                    IF ~q.ok
                    THEN q
                    ELSE AddNode(q.arena,
                                 [k |-> "Agg", agg |-> "Quantile", expr |-> r.node,
                                  quantile |-> q.node, method |-> expr.method],
                                 r.name)))

\* Expr::Agg (168-258)
LowerAgg(expr, ctx) ==
    IF expr.agg = "Quantile" THEN LowerAggQuantile(expr, ctx) ELSE LowerAggSingle(expr, ctx)

\* Expr::Ternary (259-275): the predicate with
\* to_aexpr_impl_materialized_lit, then truthy, then falsy; the name is the
\* truthy one's.
LowerTernary(expr, ctx) ==
    Let(to_aexpr_impl_materialized_lit(expr.predicate, ctx), LAMBDA p :
        IF ~p.ok
        THEN p
        ELSE Let(to_aexpr_impl(expr.truthy, WithArena(ctx, p.arena)), LAMBDA t :
                 IF ~t.ok
                 THEN t
                 ELSE Let(to_aexpr_impl(expr.falsy, WithArena(ctx, t.arena)), LAMBDA f :
                          IF ~f.ok
                          THEN f
                          ELSE AddNode(f.arena,
                                       [k |-> "Ternary", predicate |-> p.node,
                                        truthy |-> t.node, falsy |-> f.node],
                                       t.name))))

\* an AnonymousFunction arm that takes the name of the last input
LowerAnonymousFunctionNameOfLast(expr, ctx) ==
    Let(to_expr_irs_with_context(expr.input, ctx), LAMBDA e :
        IF ~e.ok
        THEN Propagate(e)
        ELSE IF expr.function = "unresolvable" \/ expr.output_type = "unresolvable"
             THEN ErrRes("ResolveError", e.arena)
             ELSE AddNode(e.arena,
                          [k |-> "AnonymousFunction", input |-> e.irs,
                           function |-> expr.function,
                           output_type |-> expr.output_type,
                           options |-> expr.options, fmt_str |-> expr.fmt_str],
                          IF e.irs = <<>>
                          THEN expr.fmt_str
                          ELSE e.irs[Len(e.irs)].output_name.name))

\* Expr::AnonymousFunction (276-305): the inputs with
\* to_expr_irs_with_context; then function.materialize()?,
\* output_type.materialize()? and their resolve_dsl(ctx.schema)?, which fail
\* for a function or an output type that does not resolve.
LowerAnonymousFunction(expr, ctx) ==
    Let(to_expr_irs_with_context(expr.input, ctx), LAMBDA e :
        IF ~e.ok
        THEN Propagate(e)
        ELSE IF expr.function = "unresolvable" \/ expr.output_type = "unresolvable"
             THEN ErrRes("ResolveError", e.arena)
             ELSE AddNode(e.arena,
                          [k |-> "AnonymousFunction", input |-> e.irs,
                           function |-> expr.function,
                           output_type |-> expr.output_type,
                           options |-> expr.options, fmt_str |-> expr.fmt_str],
                          IF e.irs = <<>> THEN expr.fmt_str ELSE e.irs[1].output_name.name))

\* convert_functions (functions.rs, called at 306-308): the inputs are
\* lowered in order, the name is that of the first input or the function's
\* display string, and a Function node holding the inputs is inserted.
convert_functions(input, function, ctx) ==
    Let(to_expr_irs_with_context(input, ctx), LAMBDA e :
        IF ~e.ok
        THEN Propagate(e)
        ELSE AddNode(e.arena,
                     [k |-> "Function", input |-> e.irs, function |-> function,
                      options |-> "default"],
                     IF e.irs = <<>> THEN function ELSE e.irs[1].output_name.name))

\* Expr::Function (306-308)
LowerFunction(expr, ctx) == convert_functions(expr.input, expr.function, ctx)

\* Expr::Window (309-334): the function, then order_by (if any) with
\* to_aexpr_impl, then every partition_by entry with
\* to_aexpr_impl_materialized_lit.
LowerWindow(expr, ctx) ==
    Let(to_aexpr_impl(expr.function, ctx), LAMBDA f :
        IF ~f.ok
        THEN f
        ELSE Let(IF IsSome(expr.order_by)
                 THEN to_aexpr_impl(Unwrap(expr.order_by).expr, WithArena(ctx, f.arena))
                 ELSE OkRes(0, "", f.arena),
                 LAMBDA o :
                    IF ~o.ok
                    THEN o
                    ELSE Let(LowerNodes(expr.partition_by, WithArena(ctx, o.arena),
                                        TRUE, <<>>),
                             LAMBDA pb :
                                IF ~pb.ok
                                THEN Propagate(pb)
                                ELSE AddNode(pb.arena,
                                             [k |-> "Window", function |-> f.node,
                                              partition_by |-> pb.nodes,
                                              order_by |->
                                                  IF IsSome(expr.order_by)
                                                  THEN Some([node |-> o.node,
                                                             options |->
                                                                 Unwrap(expr.order_by).options])
                                                  ELSE None,
                                              options |-> expr.options],
                                             f.name))))

\* Expr::Slice (335-351): offset and length are lowered with
\* to_aexpr_impl_materialized_lit.
LowerSlice(expr, ctx) ==
    Let(to_aexpr_impl(expr.input, ctx), LAMBDA r :
        IF ~r.ok
        THEN r
        ELSE Let(to_aexpr_impl_materialized_lit(expr.offset, WithArena(ctx, r.arena)),
                 LAMBDA o :
                    IF ~o.ok
                    THEN o
                    ELSE Let(to_aexpr_impl_materialized_lit(expr.length,
                                                            WithArena(ctx, o.arena)),
                             LAMBDA l :
                                IF ~l.ok
                                THEN l
                                ELSE AddNode(l.arena,
                                             [k |-> "Slice", input |-> r.node,
                                              offset |-> o.node, length |-> l.node],
                                             r.name))))

\* AExpr::inputs_rev, read back to front: the children of a node in the
\* order ArenaExprIter visits them (the child that gives the name first).
Children(ae) ==
    CASE ae.k \in {"Column", "Literal", "Len"} -> <<>>
      [] ae.k \in {"Explode", "Cast", "Sort"} -> <<ae.expr>>
      [] ae.k = "BinaryExpr" -> <<ae.left, ae.right>>
      [] ae.k = "Gather" -> <<ae.expr, ae.idx>>
      [] ae.k = "SortBy" -> <<ae.expr>> \o ae.by
      [] ae.k = "Filter" -> <<ae.input, ae.by>>
      [] ae.k = "Agg" -> IF ae.agg = "Quantile" THEN <<ae.expr, ae.quantile>> ELSE <<ae.input>>
      [] ae.k = "Ternary" -> <<ae.truthy, ae.falsy, ae.predicate>>
      [] ae.k \in {"AnonymousFunction", "Function"} -> MapSeq(ae.input, LAMBDA e : e.node)
      [] ae.k = "Window" ->
            <<ae.function>> \o ae.partition_by
            \o (IF IsSome(ae.order_by) THEN <<Unwrap(ae.order_by).node>> ELSE <<>>)
      [] ae.k = "Eval" -> <<ae.expr, ae.evaluation>>
      [] ae.k = "Slice" -> <<ae.input, ae.offset, ae.length>>

RECURSIVE PreOrderAll(_, _)

\* ArenaExprIter::iter(arena, root): the nodes of the subtree at root, each
\* before its children (a stack of nodes still to visit).
PreOrderAll(a, stack) ==
    IF stack = <<>>
    THEN <<>>
    ELSE <<Head(stack)>> \o PreOrderAll(a, Children(Get(a, Head(stack))) \o Tail(stack))

ArenaExprIter(a, root) == PreOrderAll(a, <<root>>)

RECURSIVE is_scalar_ae(_, _)

\* is_scalar_ae(node, arena): whether the node yields one value per group.
is_scalar_ae(node, a) ==
    LET ae == Get(a, node)
    IN  CASE ae.k = "Literal" -> ae.lv.variant # "Series"
          [] ae.k \in {"Agg", "Len"} -> TRUE
          [] ae.k \in {"Function", "AnonymousFunction"} -> ae.options = "returns_scalar"
          [] ae.k = "BinaryExpr" -> is_scalar_ae(ae.left, a) /\ is_scalar_ae(ae.right, a)
          [] ae.k = "Ternary" ->
                /\ is_scalar_ae(ae.predicate, a)
                /\ is_scalar_ae(ae.truthy, a)
                /\ is_scalar_ae(ae.falsy, a)
          [] ae.k = "Cast" -> is_scalar_ae(ae.expr, a)
          [] OTHER -> FALSE

RECURSIVE to_dtype(_, _, _)

\* AExpr::to_dtype(schema, Context::Default, arena): the type of a node, or
\* "err": a column the schema does not hold has no type.  A node other than
\* a leaf, a cast or an implode has the type of its first child.
to_dtype(node, schema, a) ==
    LET ae == Get(a, node)
    IN  CASE ae.k = "Column" ->
                IF ae.name \in DOMAIN schema THEN schema[ae.name] ELSE "err"
          [] ae.k = "Literal" -> ae.lv.dtype
          [] ae.k = "Len" -> "UInt32"
          [] ae.k = "Cast" -> ae.dtype
          [] ae.k = "Agg" /\ ae.agg = "Implode" -> "List"
          [] ae.k \in {"Function", "AnonymousFunction"} /\ ae.input = <<>> -> "Int64"
          [] OTHER -> to_dtype(Children(ae)[1], schema, a)

\* EvalVariant::element_dtype: a whole-list evaluation needs a list type.
element_dtype(variant, dtype) ==
    IF variant = "List" /\ dtype # "err"
    THEN (IF dtype = "List" THEN "Int64" ELSE "err")
    ELSE dtype

\* an Eval arm whose check of a whole-list evaluation looks at the root of
\* the evaluation only
LowerEvalRootOnly(expr, ctx) ==
    Let(to_aexpr_impl(expr.expr, ctx), LAMBDA r :
        IF ~r.ok
        THEN r
        ELSE Let(element_dtype(expr.variant, to_dtype(r.node, ctx.schema, r.arena)),
                 LAMBDA elem :
                    IF elem = "err"
                    THEN ErrRes("DtypeError", r.arena)
                    ELSE Let(to_aexpr_impl(expr.evaluation,
                                           [with_fields |-> None, schema |-> ("" :> elem),
                                            arena |-> r.arena]),
                             LAMBDA ev :
                                IF ~ev.ok
                                THEN ev
                                ELSE IF /\ expr.variant = "List"
                                        /\ Get(ev.arena, ev.node).k = "Column"
                                        /\ Get(ev.arena, ev.node).name # ""
                                THEN ErrRes("ComputeError", ev.arena)
                                ELSE IF /\ expr.variant = "Cumulative"
                                        /\ ~is_scalar_ae(ev.node, ev.arena)
                                THEN ErrRes("InvalidOperation", ev.arena)
                                ELSE AddNode(ev.arena,
                                             [k |-> "Eval", expr |-> r.node,
                                              evaluation |-> ev.node,
                                              variant |-> expr.variant],
                                             r.name))))

\* an Eval arm without the check of a cumulative evaluation
LowerEvalNoScalarCheck(expr, ctx) ==
    Let(to_aexpr_impl(expr.expr, ctx), LAMBDA r :
        IF ~r.ok
        THEN r
        ELSE Let(element_dtype(expr.variant, to_dtype(r.node, ctx.schema, r.arena)),
                 LAMBDA elem :
                    IF elem = "err"
                    THEN ErrRes("DtypeError", r.arena)
                    ELSE Let(to_aexpr_impl(expr.evaluation,
                                           [with_fields |-> None, schema |-> ("" :> elem),
                                            arena |-> r.arena]),
                             LAMBDA ev :
                                IF ~ev.ok
                                THEN ev
                                ELSE IF /\ expr.variant = "List"
                                        /\ \E n \in Range(ArenaExprIter(ev.arena, ev.node)) :
                                             /\ Get(ev.arena, n).k = "Column"
                                             /\ Get(ev.arena, n).name # ""
                                THEN ErrRes("ComputeError", ev.arena)
                                ELSE AddNode(ev.arena,
                                             [k |-> "Eval", expr |-> r.node,
                                              evaluation |-> ev.node,
                                              variant |-> expr.variant],
                                             r.name))))

\* Expr::Eval (352-399): expr; its type and element type; evaluation in a
\* context of its own (no struct scope, a schema of one column named "");
\* then the check of the variant.
LowerEval(expr, ctx) ==
    Let(to_aexpr_impl(expr.expr, ctx), LAMBDA r :
        IF ~r.ok
        THEN r
        ELSE Let(element_dtype(expr.variant, to_dtype(r.node, ctx.schema, r.arena)),
                 LAMBDA elem :
                    IF elem = "err"
                    THEN ErrRes("DtypeError", r.arena)
                    ELSE Let(to_aexpr_impl(expr.evaluation,
                                           [with_fields |-> None, schema |-> ("" :> elem),
                                            arena |-> r.arena]),
                             LAMBDA ev :
                                IF ~ev.ok
                                THEN ev
                                ELSE IF /\ expr.variant = "List"
                                        /\ \E n \in Range(ArenaExprIter(ev.arena, ev.node)) :
                                             /\ Get(ev.arena, n).k = "Column"
                                             /\ Get(ev.arena, n).name # ""
                                THEN ErrRes("ComputeError", ev.arena)
                                ELSE IF /\ expr.variant = "Cumulative"
                                        /\ ~is_scalar_ae(ev.node, ev.arena)
                                THEN ErrRes("InvalidOperation", ev.arena)
                                ELSE AddNode(ev.arena,
                                             [k |-> "Eval", expr |-> r.node,
                                              evaluation |-> ev.node,
                                              variant |-> expr.variant],
                                             r.name))))

\* Expr::Len (400)
LowerLen(expr, ctx) == AddNode(ctx.arena, [k |-> "Len"], LenName)

\* whether a node names a column: a Column or a struct field-by-name call
NamesColumn(ae) ==
    \/ ae.k = "Column"
    \/ ae.k = "Function" /\ ae.function = "FieldByName"

\* the name such a node holds
ColumnNameOf(ae) == IF ae.k = "Column" THEN ae.name ELSE ae.field

\* a KeepName arm that takes the name of the last Column / field-by-name
\* node of the traversal
LowerKeepNameLastHit(expr, ctx) ==
    Let(to_aexpr_impl(expr.expr, ctx), LAMBDA r :
        IF ~r.ok
        THEN r
        ELSE Let(SelectSeq(ArenaExprIter(r.arena, r.node),
                           LAMBDA n : NamesColumn(Get(r.arena, n))),
                 LAMBDA hits :
                    IF hits = <<>>
                    THEN ErrRes("InvalidOperation", r.arena)
                    ELSE OkRes(r.node, ColumnNameOf(Get(r.arena, hits[Len(hits)])),
                               r.arena)))

\* Expr::KeepName (401-420): the handle of the lowered expression, named
\* after the first Column / field-by-name node ArenaExprIter meets.
LowerKeepName(expr, ctx) ==
    Let(to_aexpr_impl(expr.expr, ctx), LAMBDA r :
        IF ~r.ok
        THEN r
        ELSE Let(SelectSeq(ArenaExprIter(r.arena, r.node),
                           LAMBDA n : NamesColumn(Get(r.arena, n))),
                 LAMBDA hits :
                    IF hits = <<>>
                    THEN ErrRes("InvalidOperation", r.arena)
                    ELSE OkRes(r.node, ColumnNameOf(Get(r.arena, hits[1])), r.arena)))

\* function.call(&name) of a RenameAlias: the new name, or "" standing for
\* the function's error.
RenameCall(function, name) ==
    CASE function = "fail" -> ""
      [] function = "to_x" -> "x"
      [] OTHER -> name

\* Expr::RenameAlias (421-425)
LowerRenameAlias(expr, ctx) ==
    Let(to_aexpr_impl(expr.expr, ctx), LAMBDA r :
        IF ~r.ok
        THEN r
        ELSE IF expr.function = "fail"
             THEN ErrRes("RenameError", r.arena)
             ELSE OkRes(r.node, RenameCall(expr.function, r.name), r.arena))

\* a Field arm that does not look the name up among the fields in scope
LowerFieldAnyName(expr, ctx) ==
    IF Len(expr.names) # 1
    THEN ErrRes("panic", ctx.arena)
    ELSE IF ~IsSome(ctx.with_fields)
    THEN ErrRes("InvalidOperation", ctx.arena)
    ELSE AddNode(ctx.arena,
                 [k |-> "Function",
                  input |-> <<ExprIR(Unwrap(ctx.with_fields).node, "")>>,
                  function |-> "FieldByName", field |-> expr.names[1],
                  options |-> "default"],
                 expr.names[1])

\* Expr::Field (427-456): assert_eq!(name.len(), 1) panics for any other
\* number of names.
LowerField(expr, ctx) ==
    IF Len(expr.names) # 1
    THEN ErrRes("panic", ctx.arena)
    ELSE IF ~IsSome(ctx.with_fields)
    THEN ErrRes("InvalidOperation", ctx.arena)
    ELSE IF expr.names[1] \notin Unwrap(ctx.with_fields).fields
    THEN [ErrRes("InvalidOperation", ctx.arena) EXCEPT !.err.field = expr.names[1]]
    ELSE AddNode(ctx.arena,
                 [k |-> "Function",
                  input |-> <<ExprIR(Unwrap(ctx.with_fields).node, "")>>,
                  function |-> "FieldByName", field |-> expr.names[1],
                  options |-> "default"],
                 expr.names[1])

\* an arm that lets a SubPlan or Selector through as a placeholder node
LowerRejectedIgnored(expr, ctx) == AddNode(ctx.arena, [k |-> "Len"], "")

\* Expr::SubPlan, Expr::Selector (458-460)
LowerRejected(expr, ctx) == ErrRes("InvalidOperation", ctx.arena)

\* to_aexpr_impl (80-463)
to_aexpr_impl(expr, ctx) ==
    CASE expr.k = "Explode" -> LowerExplode(expr, ctx)
      [] expr.k = "Alias" -> LowerAlias(expr, ctx)
      [] expr.k = "Literal" -> LowerLiteral(expr, ctx)
      [] expr.k = "Column" -> LowerColumn(expr, ctx)
      [] expr.k = "BinaryExpr" -> LowerBinaryExpr(expr, ctx)
      [] expr.k = "Cast" -> LowerCast(expr, ctx)
      [] expr.k = "Gather" -> LowerGather(expr, ctx)
      [] expr.k = "Sort" -> LowerSort(expr, ctx)
      [] expr.k = "SortBy" -> LowerSortBy(expr, ctx)
      [] expr.k = "Filter" -> LowerFilter(expr, ctx)
      [] expr.k = "Agg" -> LowerAgg(expr, ctx)
      [] expr.k = "Ternary" -> LowerTernary(expr, ctx)
      [] expr.k = "AnonymousFunction" -> LowerAnonymousFunction(expr, ctx)
      [] expr.k = "Function" -> LowerFunction(expr, ctx)
      [] expr.k = "Window" -> LowerWindow(expr, ctx)
      [] expr.k = "Slice" -> LowerSlice(expr, ctx)
      [] expr.k = "Eval" -> LowerEval(expr, ctx)
      [] expr.k = "Len" -> LowerLen(expr, ctx)
      [] expr.k = "KeepName" -> LowerKeepName(expr, ctx)
      [] expr.k = "RenameAlias" -> LowerRenameAlias(expr, ctx)
      [] expr.k = "Field" -> LowerField(expr, ctx)
      [] expr.k \in {"SubPlan", "Selector"} -> LowerRejected(expr, ctx)

\* the rewrite at the head of to_aexpr_impl_materialized_lit (60-69): a Dyn
\* literal, bare or directly under one alias, is materialized.
MaterializedLit(expr) ==
    IF expr.k = "Literal" /\ IsDyn(expr.lv)
    THEN [expr EXCEPT !.lv = Materialize(expr.lv)]
    ELSE IF expr.k = "Alias" /\ expr.e.k = "Literal" /\ IsDyn(expr.e.lv)
    THEN [expr EXCEPT !.e.lv = Materialize(expr.e.lv)]
    ELSE expr

\* to_aexpr_impl_materialized_lit (54-71)
to_aexpr_impl_materialized_lit(expr, ctx) == to_aexpr_impl(MaterializedLit(expr), ctx)

\* to_expr_ir (5-12)
to_expr_ir(expr, a, schema) ==
    to_expr_ir_with_context(expr, [with_fields |-> None, arena |-> a, schema |-> schema])

\* a to_expr_ir_materialized_lit that lets a column node give its own name
\* (OutputName::ColumnLhs) instead of wrapping the name in an alias
ToExprIrMaterializedLitInherits(expr, a, schema) ==
    Let(to_aexpr_impl_materialized_lit(
            expr, [with_fields |-> None, arena |-> a, schema |-> schema]),
        LAMBDA r :
            IF ~r.ok
            THEN [ok |-> FALSE, irs |-> <<>>, err |-> r.err, arena |-> r.arena]
            ELSE [ok |-> TRUE,
                  irs |-> <<IF Get(r.arena, r.node).k = "Column"
                            THEN [node |-> r.node,
                                  output_name |-> [policy |-> "ColumnLhs", name |-> r.name]]
                            ELSE ExprIR(r.node, r.name)>>,
                  err |-> NoErr, arena |-> r.arena])

\* to_expr_ir_materialized_lit (19-31)
to_expr_ir_materialized_lit(expr, a, schema) ==
    Let(to_aexpr_impl_materialized_lit(
            expr, [with_fields |-> None, arena |-> a, schema |-> schema]),
        LAMBDA r :
            IF ~r.ok
            THEN [ok |-> FALSE, irs |-> <<>>, err |-> r.err, arena |-> r.arena]
            ELSE [ok |-> TRUE, irs |-> <<ExprIR(r.node, r.name)>>, err |-> NoErr,
                  arena |-> r.arena])

RECURSIVE ExprIrsLoop(_, _, _, _)

\* a to_expr_irs that lowers the elements after a failing one too, and then
\* returns the first error
ExprIrsLoopLowersAll(es, a, schema, acc) ==
    IF es = <<>>
    THEN [ok |-> TRUE, irs |-> acc, err |-> NoErr, arena |-> a]
    ELSE Let(to_expr_ir(Head(es), a, schema), LAMBDA r :
             IF ~r.ok
             THEN Let(ExprIrsLoop(Tail(es), r.arena, schema, acc), LAMBDA t :
                      [ok |-> FALSE, irs |-> <<>>, err |-> r.err, arena |-> t.arena])
             ELSE ExprIrsLoop(Tail(es), r.arena, schema, acc \o r.irs))

\* the iteration of to_expr_irs: to_expr_ir on each element in order,
\* stopping at the first error
ExprIrsLoop(es, a, schema, acc) ==
    IF es = <<>>
    THEN [ok |-> TRUE, irs |-> acc, err |-> NoErr, arena |-> a]
    ELSE Let(to_expr_ir(Head(es), a, schema), LAMBDA r :
             IF ~r.ok
             THEN [ok |-> FALSE, irs |-> <<>>, err |-> r.err, arena |-> r.arena]
             ELSE ExprIrsLoop(Tail(es), r.arena, schema, acc \o r.irs))

\* a to_expr_irs that collects the ExprIRs back to front
ToExprIrsReversed(input, a, schema) ==
    Let(ExprIrsLoop(input, a, schema, <<>>), LAMBDA r :
        [r EXCEPT !.irs = [i \in 1..Len(r.irs) |-> r.irs[Len(r.irs) + 1 - i]]])

\* to_expr_irs (33-42)
to_expr_irs(input, a, schema) == ExprIrsLoop(input, a, schema, <<>>)

(***************************************************************************)
(* The expressions the lowering calls are made on                          *)
(***************************************************************************)
Col(n) == [k |-> "Column", name |-> n]

Lit(lv) == [k |-> "Literal", lv |-> lv]

Alias(e, n) == [k |-> "Alias", e |-> e, name |-> n]

\* lit(1): an integer literal of unresolved width
DynInt == [variant |-> "Dyn", dtype |-> "dyn_int"]

\* lit(1.0): a float literal of unresolved width
DynFloat == [variant |-> "Dyn", dtype |-> "dyn_float"]

ScalarInt == [variant |-> "Scalar", dtype |-> "Int64"]

SeriesLit == [variant |-> "Series", dtype |-> "Int64", name |-> "s"]

Selector == [k |-> "Selector"]

SubPlan == [k |-> "SubPlan"]

LenExpr == [k |-> "Len"]

\* the payload an aggregate variant carries besides its input
AggFlag(agg) ==
    CASE agg \in {"Min", "Max"} -> "propagate_nans"
      [] agg = "Count" -> "include_nulls"
      [] agg \in {"Std", "Var"} -> "ddof"
      [] OTHER -> "none"

Agg(agg, input) == [k |-> "Agg", agg |-> agg, input |-> input, flag |-> AggFlag(agg)]

Quantile(e, q) ==
    [k |-> "Agg", agg |-> "Quantile", expr |-> e, quantile |-> q, method |-> "linear"]

BinaryExpr(l, r) == [k |-> "BinaryExpr", left |-> l, op |-> "Plus", right |-> r]

Ternary(p, t, f) == [k |-> "Ternary", predicate |-> p, truthy |-> t, falsy |-> f]

\* ExprToIRContext.schema
TheSchema == ("a" :> "Int64") @@ ("b" :> "Int64") @@ ("l" :> "List") @@ ("s" :> "Struct")

\* the fields of the struct scope of a with_fields context
StructFields == {"x", "y"}

\* operands that give the name
Prim == {Col("a"), Alias(Col("c"), "x"), Lit(DynInt)}

\* secondary operands
Sec ==
    {Col("b"), Lit(DynInt), Lit(DynFloat), Alias(Lit(DynInt), "x"),
     Alias(Alias(Lit(DynInt), "x"), "y"), Selector}

\* elements of expression lists
ArgExprs == {Col("b"), Alias(Col("a"), "x"), Lit(DynInt), Selector}

ArgLists == UNION {[1..n -> ArgExprs] : n \in 0..MaxArgs}

Leaves ==
    {Col("a"), Col("b"), Col(""), Lit(DynInt), Lit(DynFloat), Lit(ScalarInt), Lit(SeriesLit),
     LenExpr, Selector, SubPlan,
     [k |-> "Field", names |-> <<"x">>], [k |-> "Field", names |-> <<"z">>],
     [k |-> "Field", names |-> <<>>], [k |-> "Field", names |-> <<"x", "y">>]}

UnaryExprs ==
    UNION {{[k |-> "Explode", input |-> e, skip_empty |-> FALSE],
            [k |-> "Cast", expr |-> e, dtype |-> "Float64", options |-> "strict"],
            [k |-> "Cast", expr |-> e, dtype |-> "unresolvable", options |-> "strict"],
            [k |-> "Sort", expr |-> e, options |-> "default"],
            [k |-> "KeepName", expr |-> e],
            [k |-> "RenameAlias", expr |-> e, function |-> "to_x"],
            [k |-> "RenameAlias", expr |-> e, function |-> "fail"]}
           \cup {Agg(agg, e) : agg \in SingleInputAggs} : e \in Prim \cup Sec}

BinaryExprs ==
    UNION {{BinaryExpr(p, q),
            [k |-> "Gather", expr |-> p, idx |-> q, returns_scalar |-> FALSE],
            [k |-> "Filter", input |-> p, by |-> q],
            Quantile(p, q), Quantile(q, p)} : p \in Prim, q \in Sec}
    \cup {BinaryExpr(Selector, Col("a"))}

TernaryExprs ==
    UNION {{Ternary(q, p, r), Ternary(q, r, p)} : q \in Sec, p \in Prim, r \in {Col("b")}}
    \cup UNION {{[k |-> "Slice", input |-> p, offset |-> q, length |-> r]} :
                    p \in {Col("a"), Selector}, q \in Sec, r \in Sec}

ListExprs ==
    UNION {{[k |-> "SortBy", expr |-> Col("a"), by |-> l, sort_options |-> "default"],
            [k |-> "AnonymousFunction", input |-> l, function |-> "udf",
             output_type |-> "same", options |-> "default", fmt_str |-> "map"],
            [k |-> "AnonymousFunction", input |-> l, function |-> "unresolvable",
             output_type |-> "same", options |-> "returns_scalar", fmt_str |-> "map"],
            [k |-> "Function", input |-> l, function |-> "abs"],
            [k |-> "Window", function |-> Agg("Sum", Col("a")), partition_by |-> l,
             order_by |-> None, options |-> "default"],
            [k |-> "Window", function |-> Col("a"), partition_by |-> l,
             order_by |-> Some([expr |-> Lit(DynInt), options |-> "default"]),
             options |-> "default"]} : l \in ArgLists}

\* the expression a list / cumulative evaluation is made on
EvalInputs == {Col("l"), Col("a"), Col("missing")}

\* what is evaluated on each element
Evaluations ==
    {Col(""), Col("a"), Agg("Sum", Col("")), BinaryExpr(Col(""), Col("a")),
     BinaryExpr(Agg("Sum", Col("")), Lit(ScalarInt)), Selector}

EvalExprs ==
    {[k |-> "Eval", expr |-> e, evaluation |-> ev, variant |-> v] :
        e \in EvalInputs, ev \in Evaluations, v \in {"List", "Cumulative"}}

Level1 == UnaryExprs \cup BinaryExprs \cup TernaryExprs \cup ListExprs \cup EvalExprs

\* one more construct around some of them
\* expressions on a field of the struct in scope
FieldExprs ==
    {[k |-> "Field", names |-> <<"x">>],
     BinaryExpr(Lit(DynInt), [k |-> "Field", names |-> <<"y">>]),
     BinaryExpr(Col("a"), [k |-> "Field", names |-> <<"z">>])}

Level2 ==
    UNION {{Alias(e, "z"), [k |-> "KeepName", expr |-> e], Agg("Sum", e), BinaryExpr(e, Col("b"))} :
            e \in BinaryExprs \cup FieldExprs
                  \cup {Alias(Lit(DynInt), "x"), Alias(Col("a"), "x")}}

Exprs == Leaves \cup Level1 \cup Level2

\* the expressions earlier calls have lowered into the arena; the last one
\* fails after its left operand was inserted
EarlierExprs == {Col("s"), Lit(DynInt), BinaryExpr(Col("s"), Selector)}

\* the lists to_expr_irs is called on
TopLists == UNION {[1..n -> ArgExprs \cup {BinaryExpr(Col("a"), Col("b")), Alias(Lit(DynInt), "one")}] : n \in 0..MaxArgs}

(***************************************************************************)
(* The lowering calls                                                      *)
(***************************************************************************)
\* what a call returned: Ok(irs) or Err(err); a single-expression call
\* returns one ExprIR
Returned(r) == [ok |-> r.ok, irs |-> r.irs, err |-> r.err]

InitLower ==
    /\ arena = <<>>
    /\ call = NoCall
    /\ ir = NoIR
    /\ cexprs = <<>>
    /\ cinputs = <<>>
    /\ e0 = 0
    /\ i0 = 0
    /\ rebuilt = NoIR
    /\ irpc = "idle"
    /\ exact = FALSE
    /\ options = NoOptions
    /\ built = <<>>
    /\ tcall = NoCall
    /\ tpc = "idle"
    /\ nt = NoCall
    /\ cutcall = NoCall

\* an earlier to_expr_ir call that left its nodes in the arena
LowerEarlier ==
    /\ call.fn \in {"none", "earlier"}
    /\ Len(arena) < MaxEarlier
    /\ \E e \in EarlierExprs :
        \E r \in {to_expr_ir(e, arena, TheSchema)} :
            /\ arena' = r.arena
            /\ call' = [fn |-> "earlier"]
    /\ UNCHANGED notLower

\* the calls below are made once, on the arena the earlier calls left
Ready == call.fn \in {"none", "earlier"}

\* to_expr_ir(expr, arena, schema)
ToExprIr ==
    /\ Ready
    /\ \E e \in Exprs :
        \E r \in {to_expr_ir(e, arena, TheSchema)} :
            /\ arena' = r.arena
            /\ call' = [fn |-> "to_expr_ir", input |-> <<e>>, pre |-> arena,
                        with_fields |-> None, res |-> Returned(r)]
    /\ UNCHANGED notLower

\* to_expr_ir_with_context(expr, ctx), in a struct scope on a node of the
\* arena
ToExprIrWithContext ==
    /\ Ready
    /\ \E e \in Exprs, n \in 0..(Len(arena) - 1) :
        \E r \in {to_expr_ir_with_context(
                      e, [with_fields |-> Some([node |-> n, fields |-> StructFields]),
                          arena |-> arena, schema |-> TheSchema])} :
            /\ arena' = r.arena
            /\ call' = [fn |-> "to_expr_ir_with_context", input |-> <<e>>, pre |-> arena,
                        with_fields |-> Some([node |-> n, fields |-> StructFields]),
                        res |-> Returned(r)]
    /\ UNCHANGED notLower

\* to_expr_ir_materialized_lit(expr, arena, schema)
ToExprIrMaterializedLit ==
    /\ Ready
    /\ \E e \in Exprs :
        \E r \in {to_expr_ir_materialized_lit(e, arena, TheSchema)} :
            /\ arena' = r.arena
            /\ call' = [fn |-> "to_expr_ir_materialized_lit", input |-> <<e>>,
                        pre |-> arena, with_fields |-> None, res |-> Returned(r)]
    /\ UNCHANGED notLower

\* to_expr_irs(input, arena, schema)
ToExprIrs ==
    /\ Ready
    /\ \E l \in TopLists :
        \E r \in {to_expr_irs(l, arena, TheSchema)} :
            /\ arena' = r.arena
            /\ call' = [fn |-> "to_expr_irs", input |-> l, pre |-> arena,
                        with_fields |-> None, res |-> Returned(r)]
    /\ UNCHANGED notLower

NextLower ==
    \/ LowerEarlier
    \/ ToExprIr
    \/ ToExprIrWithContext
    \/ ToExprIrMaterializedLit
    \/ ToExprIrs

SpecLower == InitLower /\ [][NextLower]_vars

(***************************************************************************)
(* Properties of the lowering calls                                        *)
(***************************************************************************)
\* the last call lowered one expression
Single ==
    call.fn \in {"to_expr_ir", "to_expr_ir_with_context", "to_expr_ir_materialized_lit"}

\* the expression of that call, the context it was made in, and the handle
\* and the name it returned
CallExpr == call.input[1]

CallCtx == [with_fields |-> call.with_fields, arena |-> call.pre, schema |-> TheSchema]

ResNode == call.res.irs[1].node

ResName == call.res.irs[1].output_name.name

\* the node the call returned
ResAExpr == Get(arena, ResNode)

\* the output name of a sub-expression: the one lowering gives it
NameOf(e) == to_aexpr_impl(e, CallCtx).name

\* a deferred literal, as an expression
IsDynLit(e) == e.k = "Literal" /\ IsDyn(e.lv)

\* the node is a literal of a concrete type
IsConcreteLit(ae) == ae.k = "Literal" /\ ~IsDyn(ae.lv)

\* the node is a literal whose type is still unresolved
IsDeferredLit(ae) == ae.k = "Literal" /\ IsDyn(ae.lv)

\* C7: a successfully lowered BinaryExpr(l, op, r) has the output name of
\* l, and a successfully lowered Ternary(pred, t, f) has the output name of
\* t.
C7_NameOfLeftAndTruthy ==
    (Single /\ call.res.ok) =>
        /\ CallExpr.k = "BinaryExpr" => ResName = NameOf(CallExpr.left)
        /\ CallExpr.k = "Ternary" => ResName = NameOf(CallExpr.truthy)

\* a Ternary was lowered whose predicate, truthy and falsy branch have
\* three different names
C7_Witness ==
    /\ Single
    /\ call.res.ok
    /\ CallExpr.k = "Ternary"
    /\ NameOf(CallExpr.predicate) # NameOf(CallExpr.truthy)
    /\ NameOf(CallExpr.falsy) # NameOf(CallExpr.truthy)
    /\ NameOf(CallExpr.predicate) # NameOf(CallExpr.falsy)
    /\ ResName = NameOf(CallExpr.truthy)

ConcreteNumeric == {"Int32", "Int64", "Float32", "Float64"}

\* C9: to_expr_ir on a bare deferred numeric literal inserts a literal that
\* is still deferred; a lowering call on an aggregate whose sole input is
\* that literal inserts for it a literal of a concrete numeric type.
C9_DeferredOrMaterialized ==
    /\ (call.fn = "to_expr_ir" /\ IsDynLit(CallExpr)) =>
            /\ call.res.ok
            /\ Len(arena) = Len(call.pre) + 1
            /\ IsDeferredLit(ResAExpr)
            /\ ResAExpr.lv = CallExpr.lv
    /\ (/\ Single
        /\ CallExpr.k = "Agg"
        /\ CallExpr.agg \in SingleInputAggs
        /\ IsDynLit(CallExpr.input)) =>
            /\ call.res.ok
            /\ Len(arena) = Len(call.pre) + 2
            /\ IsConcreteLit(Get(arena, ResAExpr.input))
            /\ Get(arena, ResAExpr.input).lv.dtype \in ConcreteNumeric

\* to_expr_ir lowered an aggregate whose sole input is a deferred literal
C9_Witness ==
    /\ call.fn = "to_expr_ir"
    /\ CallExpr.k = "Agg"
    /\ CallExpr.agg = "Sum"
    /\ IsDynLit(CallExpr.input)
    /\ call.res.ok
    /\ Get(arena, ResAExpr.input).lv.dtype = "Int32"

\* C10, as the specification states it: when the index of a Gather, the
\* predicate of a Filter, or the offset or the length of a Slice is a
\* deferred literal, the node lowering inserts for it is a concrete literal.
C10_SecondaryOperandsMaterialized ==
    (Single /\ call.res.ok) =>
        /\ (CallExpr.k = "Gather" /\ IsDynLit(CallExpr.idx)) =>
                IsConcreteLit(Get(arena, ResAExpr.idx))
        /\ (CallExpr.k = "Filter" /\ IsDynLit(CallExpr.by)) =>
                IsConcreteLit(Get(arena, ResAExpr.by))
        /\ (CallExpr.k = "Slice" /\ IsDynLit(CallExpr.offset)) =>
                IsConcreteLit(Get(arena, ResAExpr.offset))
        /\ (CallExpr.k = "Slice" /\ IsDynLit(CallExpr.length)) =>
                IsConcreteLit(Get(arena, ResAExpr.length))

\* C10, amended: when the index of a Gather, or the offset or the length of
\* a Slice, is a deferred literal, the node lowering inserts for it is a
\* concrete literal; a deferred literal that is the predicate of a Filter
\* is inserted as it is, still deferred.
C10_GatherSliceMaterializedFilterNot ==
    (Single /\ call.res.ok) =>
        /\ (CallExpr.k = "Gather" /\ IsDynLit(CallExpr.idx)) =>
                IsConcreteLit(Get(arena, ResAExpr.idx))
        /\ (CallExpr.k = "Slice" /\ IsDynLit(CallExpr.offset)) =>
                IsConcreteLit(Get(arena, ResAExpr.offset))
        /\ (CallExpr.k = "Slice" /\ IsDynLit(CallExpr.length)) =>
                IsConcreteLit(Get(arena, ResAExpr.length))
        /\ (CallExpr.k = "Filter" /\ IsDynLit(CallExpr.by)) =>
                /\ IsDeferredLit(Get(arena, ResAExpr.by))
                /\ Get(arena, ResAExpr.by).lv = CallExpr.by.lv

\* a Gather whose index is a deferred literal was lowered
C10_Witness ==
    /\ Single
    /\ call.res.ok
    /\ CallExpr.k = "Gather"
    /\ IsDynLit(CallExpr.idx)
    /\ Get(arena, ResAExpr.idx).lv.dtype = "Int32"

\* the input handle of an aggregate node
AggInput(ae) == IF ae.agg = "Quantile" THEN ae.expr ELSE ae.input

\* the input expression of an aggregate
AggInputExpr(e) == IF e.agg = "Quantile" THEN e.expr ELSE e.input

\* C11: after a successful lowering of an aggregate of any variant, the
\* input handle of the aggregate node does not refer to a deferred literal
\* node, whatever the input expression is (a deferred literal under one or
\* more aliases included).
C11_AggInputNeverDeferred ==
    (Single /\ call.res.ok /\ CallExpr.k = "Agg") =>
        ~IsDeferredLit(Get(arena, AggInput(ResAExpr)))

\* C12, as the specification states it: when an input of an
\* AnonymousFunction is a deferred literal, the node lowering inserts for
\* that input is a concrete literal.
C12_FunctionInputsMaterialized ==
    (Single /\ call.res.ok /\ CallExpr.k = "AnonymousFunction") =>
        \A i \in DOMAIN CallExpr.input :
            IsDynLit(CallExpr.input[i]) =>
                IsConcreteLit(Get(arena, ResAExpr.input[i].node))

\* C12, amended: when an input of an AnonymousFunction is a deferred
\* literal, the node lowering inserts for that input is that literal, still
\* deferred.
C12_FunctionInputsStayDeferred ==
    (Single /\ call.res.ok /\ CallExpr.k = "AnonymousFunction") =>
        \A i \in DOMAIN CallExpr.input :
            IsDynLit(CallExpr.input[i]) =>
                /\ IsDeferredLit(Get(arena, ResAExpr.input[i].node))
                /\ Get(arena, ResAExpr.input[i].node).lv = CallExpr.input[i].lv

\* an AnonymousFunction with a deferred literal as its last input, after
\* another input, was lowered
C12_Witness ==
    /\ Single
    /\ call.res.ok
    /\ CallExpr.k = "AnonymousFunction"
    /\ Len(CallExpr.input) = MaxArgs
    /\ IsDynLit(CallExpr.input[MaxArgs])
    /\ ~IsDynLit(CallExpr.input[1])
    /\ IsDeferredLit(Get(arena, ResAExpr.input[MaxArgs].node))

\* C13: a successfully lowered AnonymousFunction has the output name of
\* its first input, or its fmt_str when it has no input; its node holds one
\* ExprIR per input, in the order of the inputs: the i-th has the name of
\* the i-th input and a handle issued after those of the inputs before it
\* (the handle of that very column when the input is a column).
C13_AnonymousFunctionNameAndInputs ==
    (Single /\ call.res.ok /\ CallExpr.k = "AnonymousFunction") =>
        /\ ResName = IF CallExpr.input = <<>>
                     THEN CallExpr.fmt_str
                     ELSE NameOf(CallExpr.input[1])
        /\ ResAExpr.k = "AnonymousFunction"
        /\ Len(ResAExpr.input) = Len(CallExpr.input)
        /\ \A i \in DOMAIN CallExpr.input :
            /\ ResAExpr.input[i].output_name.name = NameOf(CallExpr.input[i])
            /\ ResAExpr.input[i].node \in Len(call.pre)..(ResNode - 1)
            /\ CallExpr.input[i].k = "Column" =>
                    Get(arena, ResAExpr.input[i].node) = CallExpr.input[i]
            /\ \A j \in DOMAIN CallExpr.input :
                    i < j => ResAExpr.input[i].node < ResAExpr.input[j].node

\* an AnonymousFunction whose inputs have different names was lowered
C13_Witness ==
    /\ Single
    /\ call.res.ok
    /\ CallExpr.k = "AnonymousFunction"
    /\ Len(CallExpr.input) > 1
    /\ NameOf(CallExpr.input[1]) # NameOf(CallExpr.input[Len(CallExpr.input)])
    /\ NameOf(CallExpr.input[1]) # CallExpr.fmt_str
    /\ ResName = NameOf(CallExpr.input[1])

\* The steps of the Eval arm before the check of the variant, for the Eval
\* the last call was made on: the lowered expr, the element type, the
\* lowered evaluation.
EvalExprRes == to_aexpr_impl(CallExpr.expr, CallCtx)

EvalElem ==
    element_dtype(CallExpr.variant,
                  to_dtype(EvalExprRes.node, TheSchema, EvalExprRes.arena))

EvalEvaluationRes ==
    to_aexpr_impl(CallExpr.evaluation,
                  [with_fields |-> None, schema |-> ("" :> EvalElem),
                   arena |-> EvalExprRes.arena])

\* the last call lowered an Eval and got as far as the check of the variant
EvalReachedCheck ==
    /\ Single
    /\ CallExpr.k = "Eval"
    /\ EvalExprRes.ok
    /\ EvalElem # "err"
    /\ EvalEvaluationRes.ok

\* the nodes inserted for the evaluation (its lowered subtree) that are
\* column references with a name other than the placeholder ""
NamedColumnsOfEvaluation ==
    {i \in (Len(EvalExprRes.arena) + 1)..Len(EvalEvaluationRes.arena) :
        /\ EvalEvaluationRes.arena[i].k = "Column"
        /\ EvalEvaluationRes.arena[i].name # ""}

C15_CumulativeNeedsScalar ==
    (EvalReachedCheck /\ CallExpr.variant = "Cumulative") =>
        IF is_scalar_ae(EvalEvaluationRes.node, EvalEvaluationRes.arena)
        THEN /\ call.res.ok
             /\ ResAExpr.k = "Eval"
             /\ ResAExpr.evaluation = EvalEvaluationRes.node
        ELSE /\ ~call.res.ok
             /\ call.res.err.kind = "InvalidOperation"
             /\ arena = EvalEvaluationRes.arena
             /\ \A i \in (Len(call.pre) + 1)..Len(arena) : arena[i].k # "Eval"

\* a cumulative evaluation of a bare column, which yields a value per row,
\* was refused
C15_Witness ==
    /\ EvalReachedCheck
    /\ CallExpr.variant = "Cumulative"
    /\ CallExpr.evaluation.k = "Column"
    /\ ~call.res.ok
    /\ call.res.err.kind = "InvalidOperation"
    /\ Len(arena) = Len(call.pre) + 2

\* the lowering of the expression under the KeepName the last call was
\* made on
KeepNameInner == to_aexpr_impl(CallExpr.expr, CallCtx)

\* the nodes of its traversal that name a column, in the order they are met
KeepNameHits ==
    SelectSeq(ArenaExprIter(KeepNameInner.arena, KeepNameInner.node),
              LAMBDA n : NamesColumn(Get(KeepNameInner.arena, n)))

\* C16: when e lowers, KeepName(e) fails, with InvalidOperation, exactly
\* when none of the nodes inserted for e is a Column or a field-by-name
\* call; otherwise it returns the handle of e, leaves the arena as the
\* lowering of e left it, and its name is the one held by the first such
\* node the traversal from e meets, whatever the aliases in e.
C16_KeepName ==
    (Single /\ CallExpr.k = "KeepName" /\ KeepNameInner.ok) =>
        IF \E i \in (Len(call.pre) + 1)..Len(KeepNameInner.arena) :
                NamesColumn(KeepNameInner.arena[i])
        THEN /\ call.res.ok
             /\ ResNode = KeepNameInner.node
             /\ arena = KeepNameInner.arena
             /\ KeepNameHits # <<>>
             /\ ResName = ColumnNameOf(Get(arena, KeepNameHits[1]))
        ELSE /\ ~call.res.ok
             /\ call.res.err.kind = "InvalidOperation"
             /\ arena = KeepNameInner.arena

\* KeepName was lowered on a binary expression of an aliased column and
\* another column: the name is that of the aliased column, not the alias
C16_Witness ==
    /\ Single
    /\ call.res.ok
    /\ CallExpr.k = "KeepName"
    /\ CallExpr.expr.k = "BinaryExpr"
    /\ CallExpr.expr.left.k = "Alias"
    /\ CallExpr.expr.left.e.k = "Column"
    /\ CallExpr.expr.right.k = "Column"
    /\ CallExpr.expr.right.name # CallExpr.expr.left.e.name
    /\ ResName = CallExpr.expr.left.e.name
    /\ ResName # KeepNameInner.name

\* C17: Field(name) fails with InvalidOperation when the context has no
\* struct-field scope; fails with InvalidOperation naming the field when a
\* scope is active and name is not one of its fields; and otherwise inserts
\* one node, a field-by-name function call on name whose single input is
\* the handle of the scope's node, and returns the output name `name`.
C17_Field ==
    (Single /\ CallExpr.k = "Field" /\ Len(CallExpr.names) = 1) =>
        IF ~IsSome(call.with_fields)
        THEN /\ ~call.res.ok
             /\ call.res.err.kind = "InvalidOperation"
             /\ arena = call.pre
        ELSE IF CallExpr.names[1] \notin Unwrap(call.with_fields).fields
        THEN /\ ~call.res.ok
             /\ call.res.err = PolarsError("InvalidOperation", CallExpr.names[1])
             /\ arena = call.pre
        ELSE /\ call.res.ok
             /\ ResName = CallExpr.names[1]
             /\ Len(arena) = Len(call.pre) + 1
             /\ ResAExpr.k = "Function"
             /\ ResAExpr.function = "FieldByName"
             /\ ResAExpr.field = CallExpr.names[1]
             /\ Len(ResAExpr.input) = 1
             /\ ResAExpr.input[1].node = Unwrap(call.with_fields).node

\* a field of the struct in scope was lowered
C17_Witness ==
    /\ Single
    /\ CallExpr.k = "Field"
    /\ IsSome(call.with_fields)
    /\ CallExpr.names = <<"x">>
    /\ call.res.ok
    /\ ResAExpr.input[1].node = Unwrap(call.with_fields).node
    /\ ResNode # Unwrap(call.with_fields).node

\* The sub-expressions of an expression in the order the lowering walk
\* takes them, each with the way it is lowered: materialized = TRUE for
\* to_aexpr_impl_materialized_lit.
Plainly(e) == [e |-> e, materialized |-> FALSE]

Eagerly(e) == [e |-> e, materialized |-> TRUE]

SubExprs(e) ==
    CASE e.k \in {"Column", "Literal", "Len", "Field", "SubPlan", "Selector"} -> <<>>
      [] e.k = "Explode" -> <<Plainly(e.input)>>
      [] e.k = "Alias" -> <<Plainly(e.e)>>
      [] e.k \in {"Cast", "Sort", "KeepName", "RenameAlias"} -> <<Plainly(e.expr)>>
      [] e.k = "BinaryExpr" -> <<Plainly(e.left), Plainly(e.right)>>
      [] e.k = "Gather" -> <<Plainly(e.expr), Eagerly(e.idx)>>
      [] e.k = "SortBy" -> <<Plainly(e.expr)>> \o MapSeq(e.by, Plainly)
      [] e.k = "Filter" -> <<Plainly(e.input), Plainly(e.by)>>
      [] e.k = "Agg" ->
            IF e.agg = "Quantile"
            THEN <<Eagerly(e.expr), Eagerly(e.quantile)>>
            ELSE <<Eagerly(e.input)>>
      [] e.k = "Ternary" -> <<Eagerly(e.predicate), Plainly(e.truthy), Plainly(e.falsy)>>
      [] e.k \in {"AnonymousFunction", "Function"} -> MapSeq(e.input, Plainly)
      [] e.k = "Window" ->
            <<Plainly(e.function)>>
            \o (IF IsSome(e.order_by) THEN <<Plainly(Unwrap(e.order_by).expr)>> ELSE <<>>)
            \o MapSeq(e.partition_by, Eagerly)
      [] e.k = "Slice" -> <<Plainly(e.input), Eagerly(e.offset), Eagerly(e.length)>>
      [] e.k = "Eval" -> <<Plainly(e.expr), Plainly(e.evaluation)>>

RECURSIVE ContainsRejected(_)

\* the expression holds a SubPlan or a Selector somewhere
ContainsRejected(e) ==
    \/ e.k \in {"SubPlan", "Selector"}
    \/ \E i \in DOMAIN SubExprs(e) : ContainsRejected(SubExprs(e)[i].e)

RECURSIVE OnlyRejectedFails(_)

\* the expression is made of constructs whose arms raise no error of their
\* own, and of SubPlan and Selector
OnlyRejectedFails(e) ==
    /\ e.k \notin {"Cast", "AnonymousFunction", "Eval", "KeepName", "RenameAlias", "Field"}
    /\ \A i \in DOMAIN SubExprs(e) : OnlyRejectedFails(SubExprs(e)[i].e)

\* C18: a lowering call on an expression that holds a SubPlan or a Selector
\* fails, with InvalidOperation when nothing else in the expression can fail
\* before the walk gets to it; a SubPlan or Selector at the top fails with
\* InvalidOperation and inserts nothing; and no call leaves a SubPlan or
\* Selector node in the arena.
C18_SubPlanSelectorRejected ==
    Single =>
        /\ ContainsRejected(CallExpr) => ~call.res.ok
        /\ (ContainsRejected(CallExpr) /\ OnlyRejectedFails(CallExpr)) =>
                call.res.err.kind = "InvalidOperation"
        /\ CallExpr.k \in {"SubPlan", "Selector"} =>
                (call.res.err.kind = "InvalidOperation" /\ arena = call.pre)
        /\ \A i \in DOMAIN arena : arena[i].k \notin {"SubPlan", "Selector"}

\* a Slice with a Selector as its last operand was lowered: the call failed
\* after inserting the nodes of the operands before it
C18_Witness ==
    /\ Single
    /\ CallExpr.k = "Slice"
    /\ CallExpr.length.k = "Selector"
    /\ ~ContainsRejected(CallExpr.input)
    /\ ~ContainsRejected(CallExpr.offset)
    /\ ~call.res.ok
    /\ call.res.err.kind = "InvalidOperation"
    /\ Len(arena) = Len(call.pre) + 2

\* the last call did not return: it panicked
Panicked == ~Ready /\ call.res.err.kind = "panic"

\* C19: every lowering call returns, Ok or Err; none aborts by a panic or a
\* failed assertion, whatever the expression (a Field of no name or of
\* several names included) and the context.
C19_NeverPanics == ~Panicked

\* the expression a single-expression call walks: the call's expression,
\* after the rewrite at the head of to_aexpr_impl_materialized_lit when the
\* call is to_expr_ir_materialized_lit
WalkedExpr ==
    IF call.fn = "to_expr_ir_materialized_lit" THEN MaterializedLit(CallExpr) ELSE CallExpr

\* what the last call lowers first: the elements of the list for
\* to_expr_irs, the sub-expressions of the expression otherwise
WalkedSubExprs ==
    IF call.fn = "to_expr_irs" THEN MapSeq(call.input, Plainly) ELSE SubExprs(WalkedExpr)

NoFailure(a) == [failed |-> FALSE, err |-> NoErr, arena |-> a]

Failure(r) == [failed |-> TRUE, err |-> r.err, arena |-> r.arena]

RECURSIVE FirstFailure(_, _)

\* Each of cs lowered alone, one after the other, on the arena the ones
\* before it left: the error and the arena of the first that fails.
FirstFailure(cs, ctx) ==
    IF cs = <<>>
    THEN NoFailure(ctx.arena)
    ELSE Let(IF Head(cs).materialized
             THEN to_aexpr_impl_materialized_lit(Head(cs).e, ctx)
             ELSE to_aexpr_impl(Head(cs).e, ctx),
             LAMBDA r :
                IF ~r.ok
                THEN Failure(r)
                ELSE FirstFailure(Tail(cs), WithArena(ctx, r.arena)))

\* The first sub-expression (or list element) of the last call that fails
\* to lower.  The evaluation of an Eval is lowered in its own context, and
\* only when the element type of expr resolved.
SubExprFailure ==
    IF call.fn # "to_expr_irs" /\ WalkedExpr.k = "Eval"
    THEN IF ~EvalExprRes.ok
         THEN Failure(EvalExprRes)
         ELSE IF EvalElem # "err" /\ ~EvalEvaluationRes.ok
         THEN Failure(EvalEvaluationRes)
         ELSE NoFailure(call.pre)
    ELSE FirstFailure(WalkedSubExprs, CallCtx)

\* s is the beginning of t
IsPrefix(s, t) == Len(s) <= Len(t) /\ SubSeq(t, 1, Len(s)) = s

\* C20: when a sub-expression of the expression a call lowers (an element
\* of the list, for to_expr_irs) fails to lower, the call returns the error
\* of the first one that fails, and the arena is as that failing lowering
\* left it: it holds what the arena held before, the nodes of the
\* sub-expressions before the failing one and what the failing one inserted
\* before it failed, and nothing for a later sub-expression or for the
\* enclosing construct.
C20_StopsAtFirstFailure ==
    (~Ready /\ SubExprFailure.failed) =>
        /\ ~call.res.ok
        /\ call.res.irs = <<>>
        /\ call.res.err = SubExprFailure.err
        /\ arena = SubExprFailure.arena
        /\ IsPrefix(call.pre, arena)

\* a Slice whose offset is a Selector was lowered: the input was inserted,
\* the length and the Slice were not
C20_Witness ==
    /\ Single
    /\ CallExpr.k = "Slice"
    /\ CallExpr.input.k = "Column"
    /\ CallExpr.offset.k = "Selector"
    /\ CallExpr.length.k = "Literal"
    /\ call.pre # <<>>
    /\ ~call.res.ok
    /\ call.res.err.kind = "InvalidOperation"
    /\ arena = Append(call.pre, CallExpr.input)

RECURSIVE RuleName(_)

\* The output name the naming rules give an expression made of columns,
\* literals, aliases and binary expressions: a column is named after
\* itself, a literal "literal", an alias by its new name, a binary
\* expression after its left operand.
RuleName(e) ==
    CASE e.k = "Column" -> e.name
      [] e.k = "Literal" -> "literal"
      [] e.k = "Alias" -> e.name
      [] e.k = "BinaryExpr" -> RuleName(e.left)

RECURSIVE Denotes(_, _)

\* the subtree of the arena at node is the expression e, aliases apart
Denotes(node, e) ==
    CASE e.k = "Alias" -> Denotes(node, e.e)
      [] e.k = "Column" -> Get(arena, node) = [k |-> "Column", name |-> e.name]
      [] e.k = "Literal" -> Get(arena, node) = [k |-> "Literal", lv |-> e.lv]
      [] e.k = "BinaryExpr" ->
            /\ Get(arena, node).k = "BinaryExpr"
            /\ Denotes(Get(arena, node).left, e.left)
            /\ Denotes(Get(arena, node).right, e.right)

\* [col("a") + col("b"), lit(1).alias("one")]
EndToEndList == <<BinaryExpr(Col("a"), Col("b")), Alias(Lit(DynInt), "one")>>

\* C21: a to_expr_irs call that succeeds returns one ExprIR for each
\* expression of the list, in the order of the list: the i-th refers to the
\* node of the i-th expression and carries the output name the naming
\* rules give it.  For [col("a") + col("b"), lit(1).alias("one")] the
\* result is two ExprIRs named "a" and "one", the first on a BinaryExpr
\* node whose children are the Column nodes "a" and "b".
C21_OneExprIRPerInputInOrder ==
    (call.fn = "to_expr_irs" /\ call.res.ok) =>
        /\ Len(call.res.irs) = Len(call.input)
        /\ \A i \in DOMAIN call.input :
                /\ call.res.irs[i].output_name.name = RuleName(call.input[i])
                /\ call.res.irs[i].node \in Len(call.pre)..(Len(arena) - 1)
                /\ Denotes(call.res.irs[i].node, call.input[i])
        /\ \A i, j \in DOMAIN call.input :
                i < j => call.res.irs[i].node < call.res.irs[j].node
        /\ call.input = EndToEndList =>
                /\ MapSeq(call.res.irs, LAMBDA x : x.output_name.name) = <<"a", "one">>
                /\ Get(arena, call.res.irs[1].node).k = "BinaryExpr"
                /\ Get(arena, Get(arena, call.res.irs[1].node).left) = [k |-> "Column", name |-> "a"]
                /\ Get(arena, Get(arena, call.res.irs[1].node).right) = [k |-> "Column", name |-> "b"]

\* the end-to-end list was lowered into a fresh arena
C21_Witness ==
    /\ call.fn = "to_expr_irs"
    /\ call.input = EndToEndList
    /\ call.pre = <<>>
    /\ call.res.ok
    /\ Len(call.res.irs) = 2
    /\ Len(arena) = 4

\* C22: lowering only appends to the arena.  In every step, of a call that
\* succeeds or of one that fails, the arena before the call is the
\* beginning of the arena after it: every handle issued before still
\* refers to the same node, none is renumbered, and the length does not
\* decrease.
C22_AppendOnly == [][IsPrefix(arena, arena')]_vars

\* a call on an arena earlier calls filled failed after it had inserted
\* nodes: the earlier nodes and the new ones are there
C22_Witness ==
    /\ ~Ready
    /\ call.pre # <<>>
    /\ ~call.res.ok
    /\ Len(arena) > Len(call.pre)
    /\ SubSeq(arena, 1, Len(call.pre)) = call.pre

\* C28: children are inserted before parents.  Every child handle a node
\* of the arena stores was issued by this arena before the node's own
\* handle: it is a handle of the arena and strictly smaller than the
\* node's.  Hence the graph of the arena has no cycle.  (The handle of
\* arena[i] is i - 1.)
C28_ChildrenBeforeParents ==
    \A i \in DOMAIN arena :
        \A j \in DOMAIN Children(arena[i]) :
            Children(arena[i])[j] \in 0..(i - 2)

\* a call in a struct scope, on an arena earlier calls filled, inserted a
\* binary expression on a binary expression, and a field-by-name node on
\* the node of the scope
C28_Witness ==
    /\ ~Ready
    /\ call.pre # <<>>
    /\ \E i \in DOMAIN arena :
            /\ i > Len(call.pre)
            /\ arena[i].k = "BinaryExpr"
            /\ Get(arena, arena[i].left).k = "BinaryExpr"
            /\ Get(arena, arena[i].left).left >= Len(call.pre)
    /\ \E i \in DOMAIN arena :
            /\ i > Len(call.pre)
            /\ arena[i].k = "Function"
            /\ arena[i].function = "FieldByName"
            /\ arena[i].input[1].node = Unwrap(call.with_fields).node

\* the name and the handle lowering computes for the i-th expression of the
\* last call (lowered on the arena the call was made on)
LoweredAlone(i) ==
    IF call.fn = "to_expr_ir_materialized_lit"
    THEN to_aexpr_impl_materialized_lit(call.input[i], CallCtx)
    ELSE to_aexpr_impl(call.input[i], CallCtx)

\* C29: every ExprIR a call of to_expr_ir, to_expr_ir_with_context,
\* to_expr_ir_materialized_lit or to_expr_irs returns has the output-name
\* policy OutputName::Alias, holding the name lowering computed for the
\* expression; no other policy is produced, for a bare column either.
C29_AlwaysExplicitAlias ==
    (~Ready /\ call.res.ok) =>
        /\ Len(call.res.irs) = Len(call.input)
        /\ \A i \in DOMAIN call.res.irs :
                /\ call.res.irs[i].output_name.policy = "Alias"
                /\ call.res.irs[i].output_name.name = LoweredAlone(i).name

\* to_expr_ir_materialized_lit was called on a bare column: the ExprIR
\* names it by an alias
C29_Witness ==
    /\ call.fn = "to_expr_ir_materialized_lit"
    /\ CallExpr = Col("a")
    /\ call.res.ok
    /\ ResAExpr.k = "Column"
    /\ call.res.irs[1].output_name = [policy |-> "Alias", name |-> "a"]

(***************************************************************************)
(* Function options (options.rs)                                           *)
(*                                                                         *)
(* FunctionFlags is a bitflags! set over u16: a value is modelled by the   *)
(* set of the flags whose bit is set, `|` by union and contains by         *)
(* inclusion.  The flags no constructor or method here names are left out. *)
(***************************************************************************)
ALLOW_RENAME == "ALLOW_RENAME"

RETURNS_SCALAR == "RETURNS_SCALAR"

ALLOW_EMPTY_INPUTS == "ALLOW_EMPTY_INPUTS"

ROW_SEPARABLE == "ROW_SEPARABLE"

LENGTH_PRESERVING == "LENGTH_PRESERVING"

\* FunctionFlags::set_elementwise (126-128)
FlagsSetElementwise(flags) == flags \cup {ROW_SEPARABLE, LENGTH_PRESERVING}

\* FunctionFlags::default (147-151)
DefaultFlags == {}

\* FunctionOptions::default (263-271)
DefaultFunctionOptions ==
    [check_lengths |-> TRUE, cast_options |-> None, flags |-> DefaultFlags]

\* FunctionOptions::with_flags (257-260)
with_flags(self, f(_)) == [self EXCEPT !.flags = f(self.flags)]

\* FunctionOptions::with_casting_rules (252-255)
with_casting_rules(self, casting_rules) == [self EXCEPT !.cast_options = Some(casting_rules)]

\* FunctionOptions::with_supertyping (248-250)
with_supertyping(self, supertype_options) ==
    with_casting_rules(self, [rule |-> "Supertype", options |-> supertype_options])

\* FunctionOptions::no_check_lengths (183-186)
no_check_lengths(self) == [self EXCEPT !.check_lengths = FALSE]

\* FunctionOptions::set_elementwise (191-193)
set_elementwise(self) == [self EXCEPT !.flags = FlagsSetElementwise(self.flags)]

\* FunctionOptions::is_length_preserving (199-201)
is_length_preserving(self) == LENGTH_PRESERVING \in self.flags

\* FunctionOptions::returns_scalar (207-209)
returns_scalar(self) == RETURNS_SCALAR \in self.flags

\* FunctionOptions::elementwise (211-216)
elementwise ==
    with_flags(DefaultFunctionOptions, LAMBDA f : f \cup {ROW_SEPARABLE, LENGTH_PRESERVING})

\* FunctionOptions::length_preserving (229-234)
length_preserving == with_flags(DefaultFunctionOptions, LAMBDA f : f \cup {LENGTH_PRESERVING})

\* FunctionOptions::elementwise_with_infer (218-220)
elementwise_with_infer == length_preserving

\* FunctionOptions::row_separable (222-227)
row_separable == with_flags(DefaultFunctionOptions, LAMBDA f : f \cup {ROW_SEPARABLE})

\* FunctionOptions::groupwise (236-240)
groupwise == DefaultFunctionOptions

\* FunctionOptions::aggregation (242-246)
aggregation == [groupwise EXCEPT !.flags = groupwise.flags \cup {RETURNS_SCALAR}]

\* the public constructors, by name
Constructors ==
    [default |-> DefaultFunctionOptions, elementwise |-> elementwise,
     elementwise_with_infer |-> elementwise_with_infer, row_separable |-> row_separable,
     length_preserving |-> length_preserving, groupwise |-> groupwise,
     aggregation |-> aggregation]

\* the flags the closures given to with_flags add
AddedFlags == {ALLOW_RENAME, RETURNS_SCALAR, ALLOW_EMPTY_INPUTS, LENGTH_PRESERVING}

\* the SuperTypeOptions given to with_supertyping
SuperTypeChoices == {"default", "implode"}

\* the state after FunctionOptions::default()
InitOptions ==
    /\ options = DefaultFunctionOptions
    /\ built = <<"default">>
    /\ ir = NoIR
    /\ cexprs = <<>>
    /\ cinputs = <<>>
    /\ e0 = 0
    /\ i0 = 0
    /\ rebuilt = NoIR
    /\ irpc = "idle"
    /\ exact = FALSE
    /\ arena = <<>>
    /\ call = NoCall
    /\ tcall = NoCall
    /\ tpc = "idle"
    /\ nt = NoCall
    /\ cutcall = NoCall

\* a constructor returns a new value
Construct ==
    /\ \E c \in DOMAIN Constructors :
        /\ options' = Constructors[c]
        /\ built' = <<c>>
    /\ UNCHANGED notOptions

\* a method call on the value
Calling(method) ==
    /\ Len(built) <= MaxCalls
    /\ built' = Append(built, method)
    /\ UNCHANGED notOptions

\* options.set_elementwise()
SetElementwise ==
    /\ options' = set_elementwise(options)
    /\ Calling("set_elementwise")

\* options.with_flags(|f| f | flag)
WithFlags ==
    /\ \E flag \in AddedFlags :
        options' = with_flags(options, LAMBDA f : f \cup {flag})
    /\ Calling("with_flags")

\* options.with_casting_rules(CastingRules::FirstArgLossless)
WithCastingRules ==
    /\ options' = with_casting_rules(options, [rule |-> "FirstArgLossless", options |-> "none"])
    /\ Calling("with_casting_rules")

\* options.with_supertyping(supertype_options)
WithSupertyping ==
    /\ \E o \in SuperTypeChoices : options' = with_supertyping(options, o)
    /\ Calling("with_supertyping")

\* options.no_check_lengths()
NoCheckLengths ==
    /\ options' = no_check_lengths(options)
    /\ Calling("no_check_lengths")

NextOptions ==
    \/ Construct
    \/ SetElementwise
    \/ WithFlags
    \/ WithCastingRules
    \/ WithSupertyping
    \/ NoCheckLengths

SpecOptions == InitOptions /\ [][NextOptions]_vars

\* the value came from a public constructor followed by set_elementwise
\* calls only
OnlySetElementwise == \A i \in 2..Len(built) : built[i] = "set_elementwise"

\* C23: RETURNS_SCALAR and LENGTH_PRESERVING are mutually exclusive: no
\* FunctionOptions value obtained from a public constructor followed by
\* set_elementwise calls has both flags set.
C23_ScalarExcludesLengthPreserving ==
    OnlySetElementwise => ~(returns_scalar(options) /\ is_length_preserving(options))

(***************************************************************************)
(* Transpose (transpose.rs)                                                *)
(*                                                                         *)
(* A frame is [height, columns]; a column is [name, dtype, vals] with one  *)
(* cell for each row; a cell is None (null) or Some(value); a value is     *)
(* [t, v]: its type and its content.  Chunking (as_single_chunk_par) is    *)
(* not modelled.                                                           *)
(***************************************************************************)
\* format_pl_smallstr!("column_{i}")
ColumnI(i) == "column_" \o ToString(i)

\* The order of the types of the frames given to transpose; the supertype
\* of several is the last in this order.
DtypeOrder == <<"Int32", "Int64", "String", "Object">>

DtypeRank(d) == CHOOSE k \in DOMAIN DtypeOrder : DtypeOrder[k] = d

\* DataFrame::get_supertype: None for a frame of no column
get_supertype(df) ==
    IF df.columns = <<>>
    THEN None
    ELSE Some(DtypeOrder[CHOOSE k \in DOMAIN DtypeOrder :
                            /\ \E j \in DOMAIN df.columns : DtypeRank(df.columns[j].dtype) = k
                            /\ \A j \in DOMAIN df.columns : DtypeRank(df.columns[j].dtype) <= k])

\* the cast of one value: a number cast to String becomes its text
CastValue(x, dtype) ==
    [t |-> dtype, v |-> IF dtype = "String" /\ x.t # "String" THEN ToString(x.v) ELSE x.v]

\* Series::cast on a cell: null stays null
CastCell(cell, dtype) == IF IsSome(cell) THEN Some(CastValue(Unwrap(cell), dtype)) ELSE None

\* DataType::to_physical: the types here are their own physical type
to_physical(dtype) == dtype

\* Series::null_count() > 0
HasNull(col) == \E i \in DOMAIN col.vals : ~IsSome(col.vals[i])

\* DataFrame::drop(name)
DropColumn(df, name) ==
    [df EXCEPT !.columns = SelectSeq(df.columns, LAMBDA c : c.name # name)]

\* Either::Left(name) and Either::Right(names)
Left(name) == [side |-> "Left", name |-> name, names |-> <<>>]

Right(names) == [side |-> "Right", name |-> "", names |-> names]

\* no frame: the call returned Err
NoFrame == [height |-> 0, columns |-> <<>>]

TErr(kind) == [ok |-> FALSE, err |-> PolarsError(kind, ""), frame |-> NoFrame]

TOk(frame) == [ok |-> TRUE, err |-> NoErr, frame |-> frame]

\* transpose_impl 115-134: the names of the output columns and the frame
\* to transpose (the frame without the column that gave the names)
NamesOut(self, new_col_names) ==
    IF ~IsSome(new_col_names)
    THEN [ok |-> TRUE, err |-> NoErr, df |-> self,
          names_out |-> [i \in 1..self.height |-> ColumnI(i - 1)]]
    ELSE IF Unwrap(new_col_names).side = "Left"
    THEN LET name == Unwrap(new_col_names).name
             hits == SelectSeq(self.columns, LAMBDA c : c.name = name)
         IN  IF hits = <<>>
             THEN [ok |-> FALSE, err |-> PolarsError("ColumnNotFound", ""), df |-> self,
                   names_out |-> <<>>]
             ELSE IF hits[1].dtype # "String"
             THEN [ok |-> FALSE, err |-> PolarsError("SchemaMismatch", ""), df |-> self,
                   names_out |-> <<>>]
             ELSE IF HasNull(hits[1])
             THEN [ok |-> FALSE, err |-> PolarsError("ComputeError", ""), df |-> self,
                   names_out |-> <<>>]
             ELSE [ok |-> TRUE, err |-> NoErr, df |-> DropColumn(self, name),
                   names_out |-> [i \in 1..self.height |-> Unwrap(hits[1].vals[i]).v]]
    ELSE LET names == Unwrap(new_col_names).names
         IN  IF Len(names) # self.height
             THEN [ok |-> FALSE, err |-> PolarsError("ShapeMismatch", ""), df |-> self,
                   names_out |-> <<>>]
             ELSE [ok |-> TRUE, err |-> NoErr, df |-> self, names_out |-> names]

\* a transpose_impl that looks for an empty frame before it looks for a
\* name collision
TransposeChecksNoDataFirst(self, keep_names_as, new_col_names) ==
    LET n == NamesOut(self, new_col_names)
    IN  IF ~n.ok
        THEN [n EXCEPT !.df = NoFrame] @@ [dtype |-> ""]
        ELSE IF n.df.height = 0 \/ Len(n.df.columns) = 0
        THEN [ok |-> FALSE, err |-> PolarsError("NoData", ""), df |-> NoFrame,
              names_out |-> <<>>, dtype |-> ""]
        ELSE IF /\ IsSome(keep_names_as)
                /\ \E i \in DOMAIN n.names_out : n.names_out[i] = Unwrap(keep_names_as)
        THEN [ok |-> FALSE, err |-> PolarsError("Duplicate", ""), df |-> NoFrame,
              names_out |-> <<>>, dtype |-> ""]
        ELSE n @@ [dtype |-> Unwrap(get_supertype(n.df))]

\* transpose_impl 111-144: the checks, in their order, and the supertype
TransposeChecks(self, keep_names_as, new_col_names) ==
    LET n == NamesOut(self, new_col_names)
    IN  IF ~n.ok
        THEN [n EXCEPT !.df = NoFrame] @@ [dtype |-> ""]
        ELSE IF /\ IsSome(keep_names_as)
                /\ \E i \in DOMAIN n.names_out : n.names_out[i] = Unwrap(keep_names_as)
        THEN [ok |-> FALSE, err |-> PolarsError("Duplicate", ""), df |-> NoFrame,
              names_out |-> <<>>, dtype |-> ""]
        ELSE IF n.df.height = 0 \/ Len(n.df.columns) = 0
        THEN [ok |-> FALSE, err |-> PolarsError("NoData", ""), df |-> NoFrame,
              names_out |-> <<>>, dtype |-> ""]
        ELSE n @@ [dtype |-> Unwrap(get_supertype(n.df))]

\* transpose_from_dtype 17-30: the column of the original column names,
\* first in the result when keep_names_as is given
NamesFirst(df, keep_names_as) ==
    IF IsSome(keep_names_as)
    THEN <<[name |-> Unwrap(keep_names_as), dtype |-> "String",
            vals |-> [j \in DOMAIN df.columns |->
                        Some([t |-> "String", v |-> df.columns[j].name])]]>>
    ELSE <<>>

\* `.zip(..)` stops with the shorter of the two
Min(a, b) == IF a <= b THEN a ELSE b

\* transpose_from_dtype 53-85: buffer c receives, from each column in
\* turn, the value of its row c, cast to the supertype
AnyValueTranspose(df, dtype, names_out) ==
    [c \in 1..Min(df.height, Len(names_out)) |->
        [name |-> names_out[c], dtype |-> dtype,
         vals |-> [r \in DOMAIN df.columns |->
                     CastCell(CastCell(df.columns[r].vals[c], dtype), to_physical(dtype))]]]

\* the types numeric_transpose is called for (transpose_from_dtype 34-47)
NumericDtypes == {"Int32", "Int64"}

\* a slot of a buffer: what it holds and how many times it was written.
\* A slot of values_buf is allocated but not initialized.
Uninit == [v |-> [t |-> "uninit", v |-> 0], n |-> 0]

\* an add_value that writes every value to the first slot of the column
AddValueFirstRow(values_buf, col_idx, row_idx, value) ==
    [values_buf EXCEPT ![col_idx + 1][1] = [v |-> value, n |-> @.n + 1]]

\* add_value (149-160): *values_buf[col_idx].as_mut_ptr().add(row_idx) = value
\* (the write at 220-227 is the same)
add_value(values_buf, col_idx, row_idx, value) ==
    [values_buf EXCEPT ![col_idx + 1][row_idx + 1] = [v |-> value, n |-> @.n + 1]]

\* numeric_transpose 204-208: *validity_buf[col_idx].as_mut_ptr().add(row_idx) = false
set_invalid(validity_buf, col_idx, row_idx) ==
    [validity_buf EXCEPT ![col_idx + 1][row_idx + 1] = [v |-> FALSE, n |-> @.n + 1]]

\* numeric_transpose 169-186: the sizes and the two buffers; no work item
\* has started.  T is the supertype, head the column of names (if any)
\* that cols_t holds already.
NumericTransposeStart(cols, names_out, T, head) ==
    LET new_width == Len(cols[1].vals)
        new_height == Len(cols)
        has_nulls == \E r \in DOMAIN cols : HasNull(cols[r])
    IN  [fn |-> "numeric_transpose", cols |-> cols, names_out |-> names_out, T |-> T,
         head |-> head, new_width |-> new_width, new_height |-> new_height,
         has_nulls |-> has_nulls,
         values_buf |-> [c \in 1..new_width |-> [r \in 1..new_height |-> Uninit]],
         validity_buf |-> [c \in 1..new_width |->
                             IF has_nulls
                             THEN [r \in 1..new_height |-> [v |-> TRUE, n |-> 0]]
                             ELSE <<>>],
         pos |-> [r \in 1..new_height |-> 0]]

\* numeric_transpose 192-229, one turn of the loop of the work item of
\* input column row_idx: the value of row col_idx = pos of that column is
\* written to slot (col_idx, row_idx)
WorkItemTurn(a, row_idx) ==
    LET col_idx == a.pos[row_idx + 1]
        opt_v == CastCell(a.cols[row_idx + 1].vals[col_idx + 1], a.T)
        stepped == [a EXCEPT !.pos[row_idx + 1] = col_idx + 1]
    IN  IF a.has_nulls /\ ~IsSome(opt_v)
        THEN [stepped EXCEPT
                !.validity_buf = set_invalid(a.validity_buf, col_idx, row_idx),
                !.values_buf = add_value(a.values_buf, col_idx, row_idx, [t |-> a.T, v |-> 0])]
        ELSE [stepped EXCEPT
                !.values_buf = add_value(a.values_buf, col_idx, row_idx, Unwrap(opt_v))]

\* what reading a slot after set_len gives: the value written, or whatever
\* the memory held when the slot was never written
ReadSlot(slot, garbage) == IF slot.n = 0 THEN [t |-> "uninit", v |-> garbage] ELSE slot.v

\* a column builder that leaves the validity out
NumericColumnNoValidity(a, c, garbage) ==
    [name |-> a.names_out[c], dtype |-> a.T,
     vals |-> [r \in 1..a.new_height |-> Some(ReadSlot(a.values_buf[c][r], garbage))]]

\* numeric_transpose 236-259: output column c from buffer c: set_len, the
\* validity as a bitmap (kept when a bit is unset), the name
NumericColumn(a, c, garbage) ==
    LET validity ==
            IF a.has_nulls /\ \E r \in 1..a.new_height : ~a.validity_buf[c][r].v
            THEN Some([r \in 1..a.new_height |-> a.validity_buf[c][r].v])
            ELSE None
    IN  [name |-> a.names_out[c], dtype |-> a.T,
         vals |-> [r \in 1..a.new_height |->
                     IF IsSome(validity) /\ ~Unwrap(validity)[r]
                     THEN None
                     ELSE Some(ReadSlot(a.values_buf[c][r], garbage))]]

\* numeric_transpose 232-261 and transpose_from_dtype 87: cols_t extended
\* by the output columns, and the frame made of it
NumericFrame(a, garbage) ==
    [height |-> a.new_height,
     columns |-> a.head \o [c \in 1..Min(a.new_width, Len(a.names_out)) |->
                               NumericColumn(a, c, garbage)]]

\* ---- the frames and the arguments of the calls
ColNames == <<"a", "b", "c", "d">>

\* where the nulls of a frame are: nowhere, in the row after its number in
\* each column (as in test_transpose), or in the whole first column
NullPatterns == {"none", "some", "first"}

\* the types of the columns of a frame: all Int32; Int32 and Int64 in
\* turn; a String column and then Int32; all Object
DtypePatterns == {"int", "mixed", "str", "object"}

DtypeAt(dp, j) ==
    CASE dp = "int" -> "Int32"
      [] dp = "mixed" -> IF j % 2 = 1 THEN "Int32" ELSE "Int64"
      [] dp = "str" -> IF j = 1 THEN "String" ELSE "Int32"
      [] dp = "object" -> "Object"

\* the cell of row i of column j: each holds a value of its own
CellAt(np, dp, i, j) ==
    IF (np = "some" /\ i = j + 1) \/ (np = "first" /\ j = 1)
    THEN None
    ELSE Some([t |-> DtypeAt(dp, j),
               v |-> IF DtypeAt(dp, j) = "String" THEN "r" \o ToString(i) ELSE 10 * j + i])

Frames ==
    {[height |-> h,
      columns |-> [j \in 1..w |->
                     [name |-> ColNames[j], dtype |-> DtypeAt(dp, j),
                      vals |-> [i \in 1..h |-> CellAt(np, dp, i, j)]]]] :
        h \in 0..MaxHeight, w \in 0..MaxWidth, np \in NullPatterns, dp \in DtypePatterns}

KeepNamesChoices == {None, Some("names"), Some("column_0"), Some("r1")}

NewColNamesChoices ==
    {None, Some(Left("a")), Some(Left("zz"))}
    \cup {Some(Right([i \in 1..n |-> "r" \o ToString(i)])) : n \in 0..(MaxHeight + 1)}

\* ---- the calls
InitTranspose ==
    /\ tcall = NoCall
    /\ tpc = "idle"
    /\ nt = NoCall
    /\ cutcall = NoCall
    /\ options = NoOptions
    /\ built = <<>>
    /\ ir = NoIR
    /\ cexprs = <<>>
    /\ cinputs = <<>>
    /\ e0 = 0
    /\ i0 = 0
    /\ rebuilt = NoIR
    /\ irpc = "idle"
    /\ exact = FALSE
    /\ arena = <<>>
    /\ call = NoCall

\* the call has not returned
Pending == [ok |-> FALSE, err |-> NoErr, frame |-> NoFrame]

\* transpose_impl(keep_names_as, new_col_names) on the frame self, up to
\* the call of numeric_transpose or to its return
TransposeFrom(fn, self, keep_names_as, new_col_names) ==
    /\ \E p \in {TransposeChecks(self, keep_names_as, new_col_names)} :
        LET returns(res) ==
                /\ tcall' = [fn |-> fn, self |-> self, keep_names_as |-> keep_names_as,
                             new_col_names |-> new_col_names, res |-> res]
                /\ tpc' = "done"
                /\ nt' = nt
        IN  IF ~p.ok
            THEN returns([ok |-> FALSE, err |-> p.err, frame |-> NoFrame])
            ELSE IF p.dtype \in NumericDtypes
            THEN /\ tcall' = [fn |-> fn, self |-> self, keep_names_as |-> keep_names_as,
                              new_col_names |-> new_col_names, res |-> Pending]
                 /\ tpc' = "filling"
                 /\ nt' = NumericTransposeStart(p.df.columns, p.names_out, p.dtype,
                                                NamesFirst(p.df, keep_names_as))
            ELSE IF p.dtype = "Object"
            THEN returns(TErr("InvalidOperation"))
            ELSE returns(TOk([height |-> Len(p.df.columns),
                              columns |-> NamesFirst(p.df, keep_names_as)
                                          \o AnyValueTranspose(p.df, p.dtype, p.names_out)]))
    /\ UNCHANGED notTranspose

\* df.transpose(keep_names_as, new_col_names) (90-104): the names become
\* PlSmallStr and transpose_impl is called
Transpose ==
    /\ tpc = "idle"
    /\ \E self \in Frames, k \in KeepNamesChoices, n \in NewColNamesChoices :
        TransposeFrom("transpose", self, k, n)

\* df.transpose_impl(keep_names_as, new_col_names) (106-146)
TransposeImpl ==
    /\ tpc = "idle"
    /\ \E self \in Frames, k \in KeepNamesChoices, n \in NewColNamesChoices :
        TransposeFrom("transpose_impl", self, k, n)

\* One turn of a work item of numeric_transpose.  The closure at 192-229
\* is written for items that run in any order (its SAFETY note: "we access
\* in parallel"); this version hands them to a sequential iterator, which
\* is one of the orders taken here.
WorkItem ==
    /\ tpc = "filling"
    /\ \E row_idx \in 0..(nt.new_height - 1) :
        /\ nt.pos[row_idx + 1] < nt.new_width
        /\ nt' = WorkItemTurn(nt, row_idx)
    /\ UNCHANGED <<tcall, tpc, notTranspose>>

\* numeric_transpose 232-261 once every work item has finished, and the
\* return of the frame (transpose_from_dtype 87)
CollectColumns ==
    /\ tpc = "filling"
    /\ \A r \in 1..nt.new_height : nt.pos[r] = nt.new_width
    /\ \E garbage \in {0, 1} :
        tcall' = [tcall EXCEPT !.res = TOk(NumericFrame(nt, garbage))]
    /\ tpc' = "done"
    /\ UNCHANGED <<nt, notTranspose>>

NextTranspose ==
    \/ Transpose
    \/ TransposeImpl
    \/ WorkItem
    \/ CollectColumns

SpecTranspose == InitTranspose /\ [][NextTranspose]_vars

(***************************************************************************)
(* Properties of transpose                                                 *)
(***************************************************************************)
\* the call returned
Transposed == tpc = "done"

\* the last call was transpose(None, None) on a frame of at least one row
\* and one column
NonEmptyDefaultCall ==
    /\ Transposed
    /\ tcall.keep_names_as = None
    /\ tcall.new_col_names = None
    /\ tcall.self.height > 0
    /\ Len(tcall.self.columns) > 0

\* the names column_0, column_1, ... in order
DefaultNames == <<"column_0", "column_1", "column_2", "column_3">>

\* The frame returned is the transpose of the frame given: as many rows as
\* that one has columns, one column for each of its rows, named column_i,
\* and in row j of column_i the value of row i of input column j cast to
\* the supertype, null exactly when that one is null.  (Rows and columns
\* are counted from 0 in the names and from 1 in the sequences.)
ReturnedTranspose ==
    /\ tcall.res.ok
    /\ tcall.res.frame.height = Len(tcall.self.columns)
    /\ Len(tcall.res.frame.columns) = tcall.self.height
    /\ \A i \in 1..tcall.self.height :
        /\ tcall.res.frame.columns[i].name = DefaultNames[i]
        /\ Len(tcall.res.frame.columns[i].vals) = Len(tcall.self.columns)
        /\ \A j \in 1..Len(tcall.self.columns) :
            /\ tcall.res.frame.columns[i].vals[j]
                   = CastCell(tcall.self.columns[j].vals[i], Unwrap(get_supertype(tcall.self)))
            /\ IsSome(tcall.res.frame.columns[i].vals[j])
                   <=> IsSome(tcall.self.columns[j].vals[i])

\* C24 as stated: transpose(None, None) of any non-empty frame of h rows
\* and w columns returns the frame of w rows and h columns column_0 ..
\* column_{h-1} that holds, in row j of column_i, the value of row i of
\* input column j cast to the common supertype, null exactly when that
\* input cell is null.
C24_TransposeOfAnyFrame == NonEmptyDefaultCall => ReturnedTranspose

\* C24: the same for the non-empty frames whose columns have a common
\* supertype other than Object.
C24_TransposeOfSupportedFrame ==
    (NonEmptyDefaultCall /\ Unwrap(get_supertype(tcall.self)) # "Object") => ReturnedTranspose

\* a frame of two Int32 / Int64 columns and two rows with nulls went
\* through numeric_transpose and was returned transposed
C24_Witness ==
    /\ NonEmptyDefaultCall
    /\ nt # NoCall
    /\ nt.has_nulls
    /\ nt.T = "Int64"
    /\ tcall.self.height = MaxHeight
    /\ Len(tcall.self.columns) = MaxWidth
    /\ tcall.res.ok
    /\ \E i \in 1..tcall.self.height : \E j \in 1..Len(tcall.self.columns) :
        /\ tcall.res.frame.columns[i].vals[j] = None
        /\ tcall.self.columns[j].vals[i] = None
    /\ \E i \in 1..tcall.self.height : \E j \in 1..Len(tcall.self.columns) :
        /\ IsSome(tcall.res.frame.columns[i].vals[j])
        /\ tcall.self.columns[j].dtype = "Int32"
        /\ Unwrap(tcall.res.frame.columns[i].vals[j])
               = [t |-> "Int64", v |-> Unwrap(tcall.self.columns[j].vals[i]).v]

\* the column an Either::Left(name) argument names, if the frame has it
NamedColumn ==
    SelectSeq(tcall.self.columns, LAMBDA c : c.name = Unwrap(tcall.new_col_names).name)

\* How the names of the output columns were asked for: "default" (none
\* given), "list" (an explicit list), "column" (the name of a column of
\* the frame that can give them), "no column" (a name that cannot)
NamesAsked ==
    CASE tcall.new_col_names = None -> "default"
      [] Unwrap(tcall.new_col_names).side = "Right" -> "list"
      [] NamedColumn # <<>> /\ NamedColumn[1].dtype = "String" /\ ~HasNull(NamedColumn[1])
            -> "column"
      [] OTHER -> "no column"

\* the explicit list has not one name for each row
ListOfWrongLength ==
    NamesAsked = "list" /\ Len(Unwrap(tcall.new_col_names).names) # tcall.self.height

\* the names the output columns get
OutputNames ==
    CASE NamesAsked = "default" -> SubSeq(DefaultNames, 1, tcall.self.height)
      [] NamesAsked = "list" -> Unwrap(tcall.new_col_names).names
      [] NamesAsked = "column" ->
            [i \in 1..tcall.self.height |-> Unwrap(NamedColumn[1].vals[i]).v]

\* keep_names_as is one of them
KeepNameCollides ==
    /\ IsSome(tcall.keep_names_as)
    /\ \E i \in DOMAIN OutputNames : OutputNames[i] = Unwrap(tcall.keep_names_as)

\* the frame to transpose (the frame, less the column that gives the
\* names) has no row or no column
NothingToTranspose ==
    \/ tcall.self.height = 0
    \/ Len(tcall.self.columns) = (IF NamesAsked = "column" THEN 1 ELSE 0)

\* the call returned this error and no frame, and numeric_transpose was
\* not entered
Rejected(kind) ==
    /\ ~tcall.res.ok
    /\ tcall.res.err.kind = kind
    /\ tcall.res.frame = NoFrame
    /\ nt = NoCall

\* C25: transpose_impl rejects invalid input with a typed error and no
\* frame, its checks made in this order: ShapeMismatch when an explicit
\* list of new column names has not the length of the row count; then
\* Duplicate when keep_names_as is one of the output column names; then
\* NoData when the frame to transpose has height 0 or width 0.
C25_ChecksInOrder ==
    (Transposed /\ NamesAsked # "no column") =>
        /\ ListOfWrongLength => Rejected("ShapeMismatch")
        /\ (~ListOfWrongLength /\ KeepNameCollides) => Rejected("Duplicate")
        /\ (~ListOfWrongLength /\ ~KeepNameCollides /\ NothingToTranspose) => Rejected("NoData")
        /\ tcall.res.err.kind \in {"ShapeMismatch", "Duplicate", "NoData"} =>
                (ListOfWrongLength \/ KeepNameCollides \/ NothingToTranspose)

\* a frame of rows and no column was given with keep_names_as =
\* "column_0": both the name collision and the empty frame apply, and the
\* call returned Duplicate
C25_Witness ==
    /\ Transposed
    /\ tcall.self.height > 0
    /\ tcall.self.columns = <<>>
    /\ tcall.new_col_names = None
    /\ tcall.keep_names_as = Some("column_0")
    /\ KeepNameCollides
    /\ NothingToTranspose
    /\ Rejected("Duplicate")

\* numeric_transpose was entered
Filling == nt # NoCall

\* the work item of input column r (counted from 1) has done the turn of
\* output column c (counted from 1)
TurnDone(c, r) == nt.pos[r] >= c

\* C27: in numeric_transpose the work item of input column r writes the
\* slots (c, r) only.  In every state of every interleaving of the work
\* items a slot of values_buf has been written once if the item of its
\* row has done the turn of its column and not at all otherwise, and a
\* slot of validity_buf once at most, by that same turn and for a null:
\* so no slot is written by two items.  When the columns are collected
\* (the lengths set to new_height) every slot (c, r), c < new_width,
\* r < new_height, of values_buf has been written exactly once.
C27_DisjointWrites ==
    Filling =>
        /\ \A c \in 1..nt.new_width : \A r \in 1..nt.new_height :
            /\ nt.values_buf[c][r].n = (IF TurnDone(c, r) THEN 1 ELSE 0)
            /\ nt.has_nulls =>
                nt.validity_buf[c][r].n =
                    (IF TurnDone(c, r) /\ ~IsSome(nt.cols[r].vals[c]) THEN 1 ELSE 0)
        /\ Transposed =>
            /\ Len(nt.values_buf) = nt.new_width
            /\ \A c \in 1..nt.new_width :
                /\ Len(nt.values_buf[c]) = nt.new_height
                /\ \A r \in 1..nt.new_height : nt.values_buf[c][r].n = 1

\* two work items are both half way through a frame with nulls: each has
\* written its slot of the first output column and not yet that of the
\* second
C27_Witness ==
    /\ tpc = "filling"
    /\ nt.has_nulls
    /\ nt.new_height >= 2
    /\ nt.new_width >= 2
    /\ nt.pos[1] = 1
    /\ nt.pos[2] = 1
    /\ nt.values_buf[1][1].n = 1
    /\ nt.values_buf[1][2].n = 1
    /\ nt.values_buf[2][1].n = 0
    /\ nt.values_buf[2][2].n = 0

(***************************************************************************)
(* cut and qcut (cut.rs)                                                   *)
(*                                                                         *)
(* An f64 is [c, v]: c is "fin" for the finite value v, or "ninf", "inf",  *)
(* "nan" (then v is 0).  A series is a sequence of cells, None for null.   *)
(***************************************************************************)
Fin(v) == [c |-> "fin", v |-> v]

NEG_INFINITY == [c |-> "ninf", v |-> 0]

INFINITY == [c |-> "inf", v |-> 0]

NaN == [c |-> "nan", v |-> 0]

is_nan(x) == x.c = "nan"

\* x < y on f64: false when either is NaN
FLt(x, y) ==
    /\ ~is_nan(x)
    /\ ~is_nan(y)
    /\ \/ x.c = "ninf" /\ y.c # "ninf"
       \/ y.c = "inf" /\ x.c # "inf"
       \/ x.c = "fin" /\ y.c = "fin" /\ x.v < y.v

\* x == y on f64: false when either is NaN
FEq(x, y) == ~is_nan(x) /\ ~is_nan(y) /\ x = y

\* PartialOrd::gt and PartialOrd::ge
FGt(x, y) == FLt(y, x)

FGe(x, y) == FLt(y, x) \/ FEq(x, y)

\* the text `{}` gives an f64
FmtFloat(x) ==
    CASE x.c = "fin" -> ToString(x.v)
      [] x.c = "ninf" -> "-inf"
      [] x.c = "inf" -> "inf"
      [] x.c = "nan" -> "NaN"

RECURSIVE SortFloats(_)

\* a sort that leaves the values in the order given
SortFloatsNot(xs) == xs

\* breaks.sort_unstable_by(|a, b| a.partial_cmp(b).unwrap()), on values
\* without a NaN: the smallest first, then the others sorted
SortFloats(xs) ==
    IF xs = <<>>
    THEN <<>>
    ELSE LET m == CHOOSE i \in DOMAIN xs : \A j \in DOMAIN xs : ~FLt(xs[j], xs[i])
         IN  <<xs[m]>> \o SortFloats([k \in 1..(Len(xs) - 1) |-> IF k < m THEN xs[k] ELSE xs[k + 1]])

\* breaks.windows(2).all(|x| x[0] != x[1])
AllDistinct(xs) == \A i \in 1..(Len(xs) - 1) : ~FEq(xs[i], xs[i + 1])

RECURSIVE partition_point(_, _, _, _, _)

\* sorted_breaks.partition_point(|v| op(&x, v)), op = ge when left_closed
\* and gt otherwise: the binary search of the slice between lo and hi
partition_point(sorted_breaks, x, left_closed, lo, hi) ==
    IF lo >= hi
    THEN lo
    ELSE LET mid == lo + ((hi - lo) \div 2)
             v == sorted_breaks[mid + 1]
         IN  IF (IF left_closed THEN FGe(x, v) ELSE FGt(x, v))
             THEN partition_point(sorted_breaks, x, left_closed, mid + 1, hi)
             ELSE partition_point(sorted_breaks, x, left_closed, lo, mid)

\* slice.get_unchecked(idx): the element, or whatever lies behind the
\* slice when idx is not in it
get_unchecked(slice, idx, garbage) == IF idx < Len(slice) THEN slice[idx + 1] ELSE garbage

\* compute_labels (71-86)
compute_labels(breaks, left_closed) ==
    LET lo == <<NEG_INFINITY>> \o breaks
        hi == breaks \o <<INFINITY>>
    IN  [i \in 1..Min(Len(lo), Len(hi)) |->
            IF left_closed
            THEN "[" \o FmtFloat(lo[i]) \o ", " \o FmtFloat(hi[i]) \o ")"
            ELSE "(" \o FmtFloat(lo[i]) \o ", " \o FmtFloat(hi[i]) \o "]"]

CutErr(kind) ==
    [ok |-> FALSE, err |-> PolarsError(kind, ""), category |-> <<>>, breakpoint |-> <<>>]

\* no value was binned
NotBinned == [reached |-> FALSE, labels |-> <<>>, sorted_breaks |-> <<>>, idx |-> <<>>]

\* map_cats (6-69): the index of every value that is neither null nor NaN
\* (38-42, 60-62), the label at that index and, with include_breaks, the
\* right end of its interval.  binned keeps what map_cats was given and
\* the indices it computed.
map_cats(s, labels, sorted_breaks, left_closed, include_breaks, garbage) ==
    LET right_ends == sorted_breaks \o <<INFINITY>>
        idx == [i \in DOMAIN s |->
                  IF IsSome(s[i]) /\ ~is_nan(Unwrap(s[i]))
                  THEN Some(partition_point(sorted_breaks, Unwrap(s[i]), left_closed,
                                            0, Len(sorted_breaks)))
                  ELSE None]
    IN  [res |-> [ok |-> TRUE, err |-> NoErr,
                  category |-> [i \in DOMAIN s |->
                                  IF IsSome(idx[i])
                                  THEN Some(get_unchecked(labels, Unwrap(idx[i]), garbage))
                                  ELSE None],
                  breakpoint |-> IF include_breaks
                                 THEN [i \in DOMAIN s |->
                                         IF IsSome(idx[i])
                                         THEN Some(get_unchecked(right_ends, Unwrap(idx[i]), NaN))
                                         ELSE None]
                                 ELSE <<>>],
         binned |-> [reached |-> TRUE, labels |-> labels, sorted_breaks |-> sorted_breaks,
                     idx |-> idx]]

\* a choice of labels that takes the caller's labels whatever their number
CutLabelsUnchecked(labels, breaks, left_closed) ==
    [ok |-> TRUE,
     labels |-> IF IsSome(labels) THEN Unwrap(labels) ELSE compute_labels(breaks, left_closed)]

\* cut 105-110 and qcut 145-150: the caller's labels, one more than the
\* breaks, or the computed ones
CutLabels(labels, breaks, left_closed) ==
    IF IsSome(labels)
    THEN [ok |-> Len(Unwrap(labels)) = Len(breaks) + 1, labels |-> Unwrap(labels)]
    ELSE [ok |-> TRUE, labels |-> compute_labels(breaks, left_closed)]

\* cut (88-112)
cut(s, breaks, labels, left_closed, include_breaks, garbage) ==
    IF \E i \in DOMAIN breaks : is_nan(breaks[i])
    THEN [res |-> CutErr("ComputeError"), binned |-> NotBinned]
    ELSE LET sorted == SortFloats(breaks)
             cut_labels == CutLabels(labels, sorted, left_closed)
         IN  IF ~AllDistinct(sorted)
             THEN [res |-> CutErr("Duplicate"), binned |-> NotBinned]
             ELSE IF sorted # <<>> /\ ~FGt(sorted[1], NEG_INFINITY)
             THEN [res |-> CutErr("ComputeError"), binned |-> NotBinned]
             ELSE IF sorted # <<>> /\ ~FLt(sorted[Len(sorted)], INFINITY)
             THEN [res |-> CutErr("ComputeError"), binned |-> NotBinned]
             ELSE IF ~cut_labels.ok
             THEN [res |-> CutErr("ShapeMismatch"), binned |-> NotBinned]
             ELSE map_cats(s, cut_labels.labels, sorted, left_closed, include_breaks, garbage)

\* ChunkedArray::quantile(p, QuantileMethod::Linear) on the sorted values
\* without nulls: the value at position p * (n - 1), interpolated between
\* its two neighbours.  A probability is held in hundredths.
quantile(vals, p) ==
    LET pos == p.v * (Len(vals) - 1)
        lo == pos \div 100
        hi == Min(lo + 1, Len(vals) - 1)
    IN  Fin(vals[lo + 1].v + (((vals[hi + 1].v - vals[lo + 1].v) * (pos % 100)) \div 100))

\* qcut (114-153); quantile fails for a probability outside 0..1 and the
\* unwrap at 137 panics
qcut(s, probs, labels, left_closed, allow_duplicates, include_breaks, garbage) ==
    IF \E i \in DOMAIN probs : is_nan(probs[i])
    THEN [res |-> CutErr("ComputeError"), binned |-> NotBinned]
    ELSE IF \A i \in DOMAIN s : ~IsSome(s[i])
    THEN [res |-> [ok |-> TRUE, err |-> NoErr, category |-> [i \in DOMAIN s |-> None],
                   breakpoint |-> <<>>],
          binned |-> NotBinned]
    ELSE IF \E i \in DOMAIN probs : probs[i].v < 0 \/ probs[i].v > 100
    THEN [res |-> CutErr("panic"), binned |-> NotBinned]
    ELSE LET vals == SortFloats(MapSeq(SelectSeq(s, IsSome), Unwrap))
             qbreaks == SortFloats([i \in DOMAIN probs |-> quantile(vals, probs[i])])
             cut_labels == CutLabels(labels, qbreaks, left_closed)
         IN  IF ~allow_duplicates /\ ~AllDistinct(qbreaks)
             THEN [res |-> CutErr("Duplicate"), binned |-> NotBinned]
             ELSE IF ~cut_labels.ok
             THEN [res |-> CutErr("ShapeMismatch"), binned |-> NotBinned]
             ELSE map_cats(s, cut_labels.labels, qbreaks, left_closed, include_breaks, garbage)

\* ---- the arguments of the calls
SeqsUpTo(S, n) == UNION {[1..k -> S] : k \in 0..n}

BreakChoices == SeqsUpTo({Fin(1), Fin(3), NEG_INFINITY, INFINITY, NaN}, MaxBreaks)

\* probabilities 0, 0.5, 1 and 1.5, and NaN
ProbChoices == SeqsUpTo({Fin(0), Fin(50), Fin(100), Fin(150), NaN}, MaxBreaks)

LabelNames == <<"l1", "l2", "l3", "l4", "l5", "l6">>

LabelChoices == {None} \cup {Some(SubSeq(LabelNames, 1, n)) : n \in 0..(MaxBreaks + 2)}

\* the series given to cut: values below, at, between and above the
\* breaks, nulls, NaN and the infinities
CutSeries ==
    {<<>>, <<None, Some(NaN)>>,
     <<Some(Fin(0)), Some(Fin(1)), Some(Fin(2)), Some(Fin(3)), Some(Fin(4))>>,
     <<Some(NEG_INFINITY), None, Some(INFINITY)>>}

\* the series given to qcut: finite values (even, so that the
\* interpolation at 0.5 is exact) and nulls
QcutSeries ==
    {<<>>, <<None, None>>, <<Some(Fin(4)), Some(Fin(0))>>,
     <<Some(Fin(2)), None, Some(Fin(0)), Some(Fin(4))>>, <<Some(Fin(2)), Some(Fin(2))>>}

\* what a label read behind the end of the labels may be
GarbageLabels == {"", "?"}

InitCut ==
    /\ cutcall = NoCall
    /\ tcall = NoCall
    /\ tpc = "idle"
    /\ nt = NoCall
    /\ options = NoOptions
    /\ built = <<>>
    /\ ir = NoIR
    /\ cexprs = <<>>
    /\ cinputs = <<>>
    /\ e0 = 0
    /\ i0 = 0
    /\ rebuilt = NoIR
    /\ irpc = "idle"
    /\ exact = FALSE
    /\ arena = <<>>
    /\ call = NoCall

\* cut(s, breaks, labels, left_closed, include_breaks); the function keeps
\* no state between calls, a behaviour is one call
Cut ==
    /\ cutcall = NoCall
    /\ \E s \in CutSeries, breaks \in BreakChoices, labels \in LabelChoices,
          left_closed \in BOOLEAN, include_breaks \in BOOLEAN, garbage \in GarbageLabels :
        \E r \in {cut(s, breaks, labels, left_closed, include_breaks, garbage)} :
            cutcall' = [fn |-> "cut", s |-> s, breaks |-> breaks, labels |-> labels,
                        left_closed |-> left_closed, include_breaks |-> include_breaks,
                        allow_duplicates |-> FALSE, res |-> r.res, binned |-> r.binned]
    /\ UNCHANGED notCut

\* qcut(s, probs, labels, left_closed, allow_duplicates, include_breaks)
Qcut ==
    /\ cutcall = NoCall
    /\ \E s \in QcutSeries, probs \in ProbChoices, labels \in LabelChoices,
          left_closed \in BOOLEAN, allow_duplicates \in BOOLEAN, include_breaks \in BOOLEAN,
          garbage \in GarbageLabels :
        \E r \in {qcut(s, probs, labels, left_closed, allow_duplicates, include_breaks,
                       garbage)} :
            cutcall' = [fn |-> "qcut", s |-> s, breaks |-> probs, labels |-> labels,
                        left_closed |-> left_closed, include_breaks |-> include_breaks,
                        allow_duplicates |-> allow_duplicates, res |-> r.res,
                        binned |-> r.binned]
    /\ UNCHANGED notCut

NextCut ==
    \/ Cut
    \/ Qcut

SpecCut == InitCut /\ [][NextCut]_vars

\* ---- properties of cut and qcut
CutCalled(fn) == cutcall # NoCall /\ cutcall.fn = fn

Reverse(xs) == [i \in DOMAIN xs |-> xs[Len(xs) + 1 - i]]

AnyNaN(xs) == \E i \in DOMAIN xs : is_nan(xs[i])

AnyEqual(xs) == \E i, j \in DOMAIN xs : i < j /\ FEq(xs[i], xs[j])

AnyInfinite(xs) == \E i \in DOMAIN xs : xs[i] \in {NEG_INFINITY, INFINITY}

WrongLabelCount(labels, breaks) ==
    IsSome(labels) /\ Len(Unwrap(labels)) # Len(breaks) + 1

\* the error the breaks and labels of a call to cut deserve, "" when none
CutRejection(breaks, labels) ==
    IF AnyNaN(breaks) THEN "ComputeError"
    ELSE IF AnyEqual(breaks) THEN "Duplicate"
    ELSE IF AnyInfinite(breaks) THEN "ComputeError"
    ELSE IF WrongLabelCount(labels, breaks) THEN "ShapeMismatch"
    ELSE ""

Ascending(xs) == \A i, j \in DOMAIN xs : i < j => FLt(xs[i], xs[j])

\* C26: cut rejects invalid breaks and labels before any value is binned:
\* ComputeError if a break is NaN, else Duplicate if two breaks are equal,
\* else ComputeError if a break is -inf or +inf, else ShapeMismatch if
\* labels are given and are not one more than the breaks; otherwise the
\* values are binned on the breaks in ascending order, and the outcome is
\* the one the same breaks give in the opposite order.
C26_CutRejectsBeforeBinning ==
    CutCalled("cut") =>
        LET kind == CutRejection(cutcall.breaks, cutcall.labels)
        IN  /\ kind # "" =>
                /\ ~cutcall.res.ok
                /\ cutcall.res.err.kind = kind
                /\ ~cutcall.binned.reached
            /\ kind = "" =>
                /\ cutcall.res.ok
                /\ cutcall.binned.reached
                /\ Ascending(cutcall.binned.sorted_breaks)
            /\ \E garbage \in GarbageLabels :
                cutcall.res = cut(cutcall.s, Reverse(cutcall.breaks), cutcall.labels,
                                  cutcall.left_closed, cutcall.include_breaks, garbage).res

\* cut was given breaks in descending order, one of them infinite, and
\* labels of the wrong number, and rejected them for the infinite break
\* without binning
C26_Witness ==
    /\ CutCalled("cut")
    /\ cutcall.breaks = <<INFINITY, Fin(1)>>
    /\ WrongLabelCount(cutcall.labels, cutcall.breaks)
    /\ cutcall.s # <<>>
    /\ ~cutcall.res.ok
    /\ cutcall.res.err.kind = "ComputeError"
    /\ ~cutcall.binned.reached

\* C30: whenever cut or qcut reaches binning, the labels are one more than
\* the sorted breaks, the index of every value that is neither null nor NaN
\* lies in 0..=breaks.len(), and so no label or right end is read from
\* behind its array.
C30_IndexInBounds ==
    (cutcall # NoCall /\ cutcall.binned.reached) =>
        LET binned == cutcall.binned
        IN  /\ Len(binned.labels) = Len(binned.sorted_breaks) + 1
            /\ \A i \in DOMAIN binned.idx :
                /\ IsSome(binned.idx[i]) <=>
                       (IsSome(cutcall.s[i]) /\ ~is_nan(Unwrap(cutcall.s[i])))
                /\ IsSome(binned.idx[i]) =>
                    /\ Unwrap(binned.idx[i]) \in 0..Len(binned.sorted_breaks)
                    /\ cutcall.res.category[i] =
                           Some(binned.labels[Unwrap(binned.idx[i]) + 1])
                    /\ cutcall.include_breaks =>
                           cutcall.res.breakpoint[i] =
                               Some((binned.sorted_breaks \o <<INFINITY>>)[Unwrap(binned.idx[i]) + 1])

\* qcut, allowed duplicates, binned a value into the last interval of
\* quantiles that are equal, with labels of the caller
C30_Witness ==
    /\ CutCalled("qcut")
    /\ cutcall.binned.reached
    /\ IsSome(cutcall.labels)
    /\ cutcall.include_breaks
    /\ Len(cutcall.binned.sorted_breaks) = MaxBreaks
    /\ ~AllDistinct(cutcall.binned.sorted_breaks)
    /\ \E i \in DOMAIN cutcall.binned.idx :
        cutcall.binned.idx[i] = Some(Len(cutcall.binned.sorted_breaks))

=============================================================================
